---- MODULE Spec2Model ----
(***************************************************************************)
(* FlowHarmony (src/app.py): the cafeteria prep-decision engine.           *)
(* The model keeps Python's float arithmetic (IEEE-754 binary64, round to  *)
(* nearest even) because the code truncates float results with int(): a    *)
(* result that is one ulp short of an integer changes the integer.         *)
(***************************************************************************)
EXTENDS Integers, Sequences, FiniteSets, TLC

\* ------------------------------------------------------------------------
\* IEEE-754 binary64 arithmetic.  A value is (-1)^s * m * 2^e; its mantissa m
\* is a little-endian tuple of 4 limbs of 14 bits with 2^52 <= m < 2^53, or
\* <<>> for zero.  An exact intermediate result is a wide tuple of 8 limbs.
\* ------------------------------------------------------------------------
LimbBits == 14
LimbBase == 16384
MantBits == 53

\* limb i (from 0) of w, 0 outside of w
Limb(w, i) == IF i >= 0 /\ i < Len(w) THEN w[i + 1] ELSE 0

\* number of bits of a limb
BitLen14(n) ==
    IF n >= 128
    THEN IF n >= 2048
         THEN (IF n >= 8192 THEN 14 ELSE IF n >= 4096 THEN 13 ELSE 12)
         ELSE (IF n >= 1024 THEN 11 ELSE IF n >= 512 THEN 10 ELSE IF n >= 256 THEN 9 ELSE 8)
    ELSE IF n >= 8
         THEN (IF n >= 64 THEN 7 ELSE IF n >= 32 THEN 6 ELSE IF n >= 16 THEN 5 ELSE 4)
         ELSE (IF n >= 4 THEN 3 ELSE IF n >= 2 THEN 2 ELSE n)

\* index of the highest nonzero limb of the wide w, -1 for zero
TopLimb(w) ==
    IF w[8] # 0 THEN 7 ELSE IF w[7] # 0 THEN 6 ELSE IF w[6] # 0 THEN 5
    ELSE IF w[5] # 0 THEN 4 ELSE IF w[4] # 0 THEN 3 ELSE IF w[3] # 0 THEN 2
    ELSE IF w[2] # 0 THEN 1 ELSE IF w[1] # 0 THEN 0 ELSE -1

\* number of bits of the wide w whose highest nonzero limb is t
BitsBelow(w, t) == IF t < 0 THEN 0 ELSE t * LimbBits + BitLen14(w[t + 1])
WideBits(w) == BitsBelow(w, TopLimb(w))

\* limb i of w shifted right by d bits
ShrLimb(w, d, i) ==
    Limb(w, i + d \div LimbBits) \div 2^(d % LimbBits)
    + (Limb(w, i + d \div LimbBits + 1) % 2^(d % LimbBits)) * 2^(LimbBits - (d % LimbBits))

\* limb i of w shifted left by c bits
ShlLimb(w, c, i) ==
    (Limb(w, i - c \div LimbBits) % 2^(LimbBits - (c % LimbBits))) * 2^(c % LimbBits)
    + Limb(w, i - c \div LimbBits - 1) \div 2^(LimbBits - (c % LimbBits))

Shr4(w, d) == <<ShrLimb(w, d, 0), ShrLimb(w, d, 1), ShrLimb(w, d, 2), ShrLimb(w, d, 3)>>
Shl4(w, c) == <<ShlLimb(w, c, 0), ShlLimb(w, c, 1), ShlLimb(w, c, 2), ShlLimb(w, c, 3)>>
Shl8(w, c) == <<ShlLimb(w, c, 0), ShlLimb(w, c, 1), ShlLimb(w, c, 2), ShlLimb(w, c, 3),
                ShlLimb(w, c, 4), ShlLimb(w, c, 5), ShlLimb(w, c, 6), ShlLimb(w, c, 7)>>

\* bit i of w
BitAt(w, i) == (Limb(w, i \div LimbBits) \div 2^(i % LimbBits)) % 2

\* TRUE iff some of the n lowest bits of w is set
LowNonzero(w, n) ==
    \/ Limb(w, n \div LimbBits) % 2^(n % LimbBits) # 0
    \/ \E j \in 1..(n \div LimbBits) : Limb(w, j - 1) # 0

\* m + 1 for a mantissa m
Inc4(m) ==
    IF m[1] + 1 < LimbBase THEN <<m[1] + 1, m[2], m[3], m[4]>>
    ELSE IF m[2] + 1 < LimbBase THEN <<0, m[2] + 1, m[3], m[4]>>
    ELSE IF m[3] + 1 < LimbBase THEN <<0, 0, m[3] + 1, m[4]>>
    ELSE <<0, 0, 0, m[4] + 1>>

\* the wide value of 8 limb sums u, each within 32 bits: the carries (borrows
\* are the floored quotient -1) move up
WideCarry(u) ==
    LET t1 == u[1]
        t2 == u[2] + t1 \div LimbBase
        t3 == u[3] + t2 \div LimbBase
        t4 == u[4] + t3 \div LimbBase
        t5 == u[5] + t4 \div LimbBase
        t6 == u[6] + t5 \div LimbBase
        t7 == u[7] + t6 \div LimbBase
        t8 == u[8] + t7 \div LimbBase
    IN  <<t1 % LimbBase, t2 % LimbBase, t3 % LimbBase, t4 % LimbBase,
          t5 % LimbBase, t6 % LimbBase, t7 % LimbBase, t8>>

FZero == [s |-> 0, m |-> <<>>, e |-> 0]

\* float("nan"): every arithmetic result on it is nan, every comparison false
FNaN == [s |-> 0, m |-> <<>>, e |-> 1]
IsNaN(x) == x.m = <<>> /\ x.e = 1
IsZero(x) == x.m = <<>> /\ x.e = 0

\* the mantissa q rounded up, renormalized when it reaches 2^53
FRoundUp(s, q, e) ==
    IF q[4] >= 2048 THEN [s |-> s, m |-> <<0, 0, 0, 1024>>, e |-> e + 1]
    ELSE [s |-> s, m |-> q, e |-> e]

\* the mantissa q, or q + 1 with up
FRoundTie(s, q, e, up) ==
    IF up THEN FRoundUp(s, Inc4(q), e) ELSE [s |-> s, m |-> q, e |-> e]

\* the wide w of L bits as a mantissa of 53 bits
FRoundBits(s, w, e, sticky, L) ==
    IF L = 0 THEN FZero
    ELSE IF L <= MantBits
    THEN [s |-> s, m |-> Shl4(w, MantBits - L), e |-> e - (MantBits - L)]
    ELSE FRoundTie(s, Shr4(w, L - MantBits), e + (L - MantBits),
                   /\ BitAt(w, L - MantBits - 1) = 1
                   /\ \/ sticky
                      \/ LowNonzero(w, L - MantBits - 1)
                      \/ BitAt(w, L - MantBits) = 1)

\* the binary64 nearest to (-1)^s * (w + f) * 2^e for the wide w, where
\* 0 <= f < 1 and f > 0 iff sticky (ties to even); with sticky, w has more
\* than 54 bits
FRound(s, w, e, sticky) == FRoundBits(s, w, e, sticky, WideBits(w))

\* float(n) for an int n
FInt(n) ==
    FRound(IF n < 0 THEN 1 ELSE 0,
           IF n < 0
           THEN <<(-n) % LimbBase, ((-n) \div LimbBase) % LimbBase, (-n) \div (LimbBase * LimbBase), 0, 0, 0, 0, 0>>
           ELSE <<n % LimbBase, (n \div LimbBase) % LimbBase, n \div (LimbBase * LimbBase), 0, 0, 0, 0, 0>>,
           0, FALSE)

FNeg(x) == IF x.m = <<>> THEN x ELSE [x EXCEPT !.s = 1 - x.s]

\* -1, 0, 1 as a < b, a = b, a > b for mantissas a, b
MantCmp(a, b) ==
    IF \A i \in 1..4 : a[i] = b[i] THEN 0
    ELSE IF \E i \in 1..4 : a[i] < b[i] /\ \A l \in (i + 1)..4 : a[l] = b[l] THEN -1
    ELSE 1

\* -1, 0, 1 as a < b, a = b, a > b for a wide a and a mantissa b
WideCmp(a, b) ==
    IF a[5] # 0 \/ a[6] # 0 \/ a[7] # 0 \/ a[8] # 0 THEN 1 ELSE MantCmp(a, b)

\* limb sums of a wide a and a mantissa b
WideSum(a, b) ==
    <<a[1] + b[1], a[2] + b[2], a[3] + b[3], a[4] + b[4], a[5], a[6], a[7], a[8]>>

\* limb differences of a wide a and a mantissa b
WideDiff(a, b) ==
    <<a[1] - b[1], a[2] - b[2], a[3] - b[3], a[4] - b[4], a[5], a[6], a[7], a[8]>>

\* limb differences of a mantissa b and a wide a <= b
MantDiff(b, a) == <<b[1] - a[1], b[2] - a[2], b[3] - a[3], b[4] - a[4], 0, 0, 0, 0>>

\* (-1)^sx * a + (-1)^sy * b at exponent e, for a wide a and a mantissa b
\* with c = WideCmp(a, b)
FAddWide(sx, sy, a, b, e, c) ==
    FRound(IF sx = sy \/ c >= 0 THEN sx ELSE sy,
           WideCarry(IF sx = sy THEN WideSum(a, b)
                     ELSE IF c >= 0 THEN WideDiff(a, b)
                     ELSE MantDiff(b, a)),
           e, FALSE)

\* x + y for x.m * 2^(x.e - y.e) = a
FAddAligned(x, y, a) == FAddWide(x.s, y.s, a, y.m, y.e, WideCmp(a, y.m))

\* x + y for nonzero x, y with x.e >= y.e
FAddOrdered(x, y) ==
    IF x.e - y.e >= 56 THEN x ELSE FAddAligned(x, y, Shl8(x.m, x.e - y.e))

\* x + y
FAdd(x, y) ==
    IF IsNaN(x) \/ IsNaN(y) THEN FNaN
    ELSE IF x.m = <<>> THEN y
    ELSE IF y.m = <<>> THEN x
    ELSE FAddOrdered(IF x.e >= y.e THEN x ELSE y, IF x.e >= y.e THEN y ELSE x)

FSub(x, y) == FAdd(x, FNeg(y))

\* the column sums of the product of the mantissas a and b
MantProduct(a, b) ==
    <<a[1] * b[1],
      a[1] * b[2] + a[2] * b[1],
      a[1] * b[3] + a[2] * b[2] + a[3] * b[1],
      a[1] * b[4] + a[2] * b[3] + a[3] * b[2] + a[4] * b[1],
      a[2] * b[4] + a[3] * b[3] + a[4] * b[2],
      a[3] * b[4] + a[4] * b[3],
      a[4] * b[4],
      0>>

\* x * y
FMul(x, y) ==
    IF IsNaN(x) \/ IsNaN(y) THEN FNaN
    ELSE IF x.m = <<>> \/ y.m = <<>> THEN FZero
    ELSE FRound((x.s + y.s) % 2, WideCarry(MantProduct(x.m, y.m)), x.e + y.e, FALSE)

\* the long division of m * 2^42 by a: <<quotient, remainder # 0>>
MantDivide(m, a) ==
    LET c6 == m[4]
        c5 == (c6 % a) * LimbBase + m[3]
        c4 == (c5 % a) * LimbBase + m[2]
        c3 == (c4 % a) * LimbBase + m[1]
        c2 == (c3 % a) * LimbBase
        c1 == (c2 % a) * LimbBase
        c0 == (c1 % a) * LimbBase
    IN  <<c0 % a # 0, c0 \div a, c1 \div a, c2 \div a, c3 \div a, c4 \div a, c5 \div a, c6 \div a>>

\* the quotient qr of MantDivide as a float
FQuotient(s, qr, e) ==
    FRound(s, <<qr[2], qr[3], qr[4], qr[5], qr[6], qr[7], qr[8], 0>>, e, qr[1])

\* x / float(k) for an int k with 0 < |k| < LimbBase
FDivInt(x, k) ==
    IF IsNaN(x) THEN FNaN
    ELSE IF x.m = <<>> THEN FZero
    ELSE FQuotient(IF k < 0 THEN 1 - x.s ELSE x.s,
                   MantDivide(x.m, IF k < 0 THEN -k ELSE k),
                   x.e - 3 * LimbBits)

\* -1, 0, 1 as x < y, x = y, x > y for nonzero x, y of the sign sgn
FCmpMagnitude(x, y, sgn) ==
    IF x.e # y.e THEN (IF x.e < y.e THEN -sgn ELSE sgn)
    ELSE sgn * MantCmp(x.m, y.m)

\* the sign of x: -1, 0, 1
FSign(x) == IF x.m = <<>> THEN 0 ELSE IF x.s = 1 THEN -1 ELSE 1

\* -1, 0, 1 as x < y, x = y, x > y; neither is nan
FCmp(x, y) ==
    IF FSign(x) # FSign(y) THEN (IF FSign(x) < FSign(y) THEN -1 ELSE 1)
    ELSE IF FSign(x) = 0 THEN 0
    ELSE FCmpMagnitude(x, y, FSign(x))

FLt(x, y) == ~IsNaN(x) /\ ~IsNaN(y) /\ FCmp(x, y) < 0
FLe(x, y) == ~IsNaN(x) /\ ~IsNaN(y) /\ FCmp(x, y) <= 0
FEq(x, y) == ~IsNaN(x) /\ ~IsNaN(y) /\ FCmp(x, y) = 0

\* Python's max(a, b) and min(a, b): the first argument unless the second
\* is strictly greater (smaller)
FMax(a, b) == IF FLt(a, b) THEN b ELSE a
FMin(a, b) == IF FLt(b, a) THEN b ELSE a

\* the decimal literal n/d (the binary64 nearest to it), 0 < d < LimbBase
FDec(n, d) == FDivInt(FInt(n), d)

\* floor(w / 2^k) for a wide w, the result below 2^30
WideShrInt(w, k) ==
    ShrLimb(w, k, 0) + ShrLimb(w, k, 1) * LimbBase + ShrLimb(w, k, 2) * LimbBase * LimbBase

\* q + 1 or q: round half to even of q + half/2 + rest
HalfEven(q, half, rest) == IF half /\ (rest \/ q % 2 = 1) THEN q + 1 ELSE q

\* N / 2^k for a wide N rounded half to even, the result below 2^30
WideRoundShr(N, k) ==
    HalfEven(IF k >= 5 * LimbBits THEN 0 ELSE WideShrInt(N, k),
             k <= 5 * LimbBits /\ BitAt(N, k - 1) = 1,
             LowNonzero(N, k - 1))

\* the mantissa m times p as limb products
MantTimes(m, p) == <<m[1] * p, m[2] * p, m[3] * p, m[4] * p, 0, 0, 0, 0>>

\* (-1)^s * n / p
FSignedDec(s, n, p) == FDec(IF s = 1 THEN -n ELSE n, p)

\* round(x, ndigits) for p = 10^ndigits < LimbBase: x rounded half-even to
\* ndigits decimals on its exact value, as the nearest binary64; |x| * p < 2^30
FRoundDec(x, p) ==
    IF IsNaN(x) \/ x.m = <<>> THEN x
    ELSE FSignedDec(x.s, WideRoundShr(WideCarry(MantTimes(x.m, p)), -x.e), p)

FRound4(x) == FRoundDec(x, 10000)
FRound3(x) == FRoundDec(x, 1000)

\* int(x): truncation toward zero, |x| < 2^30
FTrunc(x) ==
    IF x.m = <<>> \/ -x.e >= MantBits THEN 0
    ELSE (IF x.s = 1 THEN -1 ELSE 1) * WideShrInt(x.m, -x.e)

\* ------------------------------------------------------------------------
\* Prep decision engine
\* ------------------------------------------------------------------------
MaxSuggestedGrams == 4000

IMax(a, b) == IF b > a THEN b ELSE a
IMin(a, b) == IF b < a THEN b ELSE a

\* current_portions = (pan_fill_percent / 100.0) * pan_capacity_portions
current_portions(pan_fill_percent, pan_capacity_portions) ==
    FMul(FDivInt(FInt(pan_fill_percent), 100), FInt(pan_capacity_portions))

\* portions_needed with the pan's portions added to the demand
portions_needed_adds(predicted_diners_next_wave, pan_fill_percent, pan_capacity_portions) ==
    FMax(FAdd(FInt(predicted_diners_next_wave),
              current_portions(pan_fill_percent, pan_capacity_portions)),
         FZero)

\* portions_needed = max(predicted_diners_next_wave - current_portions, 0.0)
portions_needed(predicted_diners_next_wave, pan_fill_percent, pan_capacity_portions) ==
    FMax(FSub(FInt(predicted_diners_next_wave),
              current_portions(pan_fill_percent, pan_capacity_portions)),
         FZero)

compute_suggested_grams(predicted_diners_next_wave, pan_fill_percent, portion_grams, pan_capacity_portions) ==
    IMax(0, IMin(FTrunc(FMul(portions_needed(predicted_diners_next_wave, pan_fill_percent,
                                             pan_capacity_portions),
                             FInt(portion_grams))),
                 MaxSuggestedGrams))

\* the new pan_fill_percent after a refill of suggested_grams
\* portions_added = suggested_grams / portion_grams if portion_grams else 0
portions_added(suggested_grams, portion_grams) ==
    IF suggested_grams # 0 THEN FDivInt(FInt(suggested_grams), portion_grams) ELSE FZero

\* current_portions + portions_added without the cap at capacity_portions
new_portions_uncapped(pan_fill_percent, suggested_grams, portion_grams, capacity_portions) ==
    FAdd(current_portions(pan_fill_percent, capacity_portions),
         portions_added(suggested_grams, portion_grams))

\* new_portions = min(capacity_portions, current_portions + portions_added)
new_portions(pan_fill_percent, suggested_grams, portion_grams, capacity_portions) ==
    FMin(FInt(capacity_portions),
         FAdd(current_portions(pan_fill_percent, capacity_portions),
              portions_added(suggested_grams, portion_grams)))

adjust_pan_after_refill(pan_fill_percent, suggested_grams, portion_grams, capacity_portions) ==
    FTrunc(FMul(FDivInt(new_portions(pan_fill_percent, suggested_grams, portion_grams,
                                     capacity_portions),
                        capacity_portions),
                FInt(100)))


\* ------------------------------------------------------------------------
\* Configuration
\* ------------------------------------------------------------------------
DEFAULT_SITE_ID == "flavoria"
PRIMARY_SERVICE_SLOT == "favourite_1"

\* SITES holds one SiteConfig; times of day are minutes after midnight
SiteFlavoria ==
    [site_id |-> DEFAULT_SITE_ID,
     lunch_window_start |-> 660, lunch_window_end |-> 810,
     wave_duration_minutes |-> 30,
     portion_grams |-> 160, pan_capacity_portions |-> 20]

\* SITES.get(site_id, SITES[DEFAULT_SITE_ID])
get_site_config(site_id) == SiteFlavoria

EXPECTED_WAVES == <<10, 30, 40, 25, 15>>

MinutesPerDay == 1440

FEEDBACK_SCORE_HISTORY_LIMIT == 100
DETAILED_FEEDBACK_HISTORY_LIMIT == 400
MAX_REACTIONS_STORED == 75
DETAILED_FEEDBACK_WINDOW_MINUTES == 90
MAX_DETAILED_FEEDBACK_SAMPLES == 160

NUMERIC_FEEDBACK_WEIGHTS ==
    [smell |-> FDec(5, 100), appearance |-> FDec(4, 100),
     staff_warmth |-> FDec(3, 100), value_for_money |-> FDec(6, 100)]

CATEGORICAL_FEEDBACK_WEIGHTS ==
    [temperature  |-> [too_cold |-> FDec(-5, 100), just_right |-> FDec(2, 100), too_hot |-> FDec(-3, 100)],
     wait_time    |-> [quick |-> FDec(5, 100), ok |-> FZero, too_long |-> FDec(-8, 100)],
     flow_speed   |-> [smooth |-> FDec(4, 100), stop_and_go |-> FDec(-3, 100), stalled |-> FDec(-7, 100)],
     portion_size |-> [too_light |-> FDec(-5, 100), just_right |-> FDec(3, 100), too_heavy |-> FDec(-2, 100)],
     overall_mood |-> [energized |-> FDec(5, 100), content |-> FDec(2, 100), neutral |-> FDec(-15, 1000)]]

\* SERVICE_DAY_PRESETS.get(site_id, {}) with the defaults of
\* get_or_create_service_day
Preset(site_id) ==
    IF site_id = DEFAULT_SITE_ID
    THEN [total_expected_diners |-> 360, diners_so_far |-> 148,
          wave_index |-> 2, pan_fill_percent |-> 46,
          feedback_scores |-> <<3, 3, 2, 3, 3, 1, 3, 2, 3, 2, 3, 3>>]
    ELSE [total_expected_diners |-> 120, diners_so_far |-> 0,
          wave_index |-> 0, pan_fill_percent |-> 60,
          feedback_scores |-> <<>>]

\* ------------------------------------------------------------------------
\* Wave schedule
\* ------------------------------------------------------------------------
RECURSIVE WaveLoop(_, _, _, _)
WaveLoop(current, end, duration, idx) ==
    IF current % MinutesPerDay < end /\ idx < Len(EXPECTED_WAVES)
    THEN <<[index |-> idx,
            start_time |-> current % MinutesPerDay,
            end_time |-> (current + duration) % MinutesPerDay,
            expected_diners_pattern |-> EXPECTED_WAVES[idx + 1]]>>
         \o WaveLoop(current + duration, end, duration, idx + 1)
    ELSE <<>>

get_wave_template(site) ==
    WaveLoop(site.lunch_window_start, site.lunch_window_end, site.wave_duration_minutes, 0)

RECURSIVE FirstWaveAt(_, _, _)
FirstWaveAt(waves, i, t) ==
    IF i > Len(waves) THEN -1
    ELSE IF waves[i].start_time <= t /\ t < waves[i].end_time THEN waves[i].index
    ELSE FirstWaveAt(waves, i + 1, t)

\* t is the time of day in minutes; the site has at least one wave
get_current_wave_index(t, site) ==
    LET waves == get_wave_template(site)
        hit   == FirstWaveAt(waves, 1, t)
    IN  IF hit # -1 THEN hit
        ELSE IF t < waves[1].start_time THEN waves[1].index
        ELSE waves[Len(waves)].index

\* ------------------------------------------------------------------------
\* Demand forecaster
\* ------------------------------------------------------------------------
FHalf == FDivInt(FInt(1), 2)

\* expected_in_wave: the pattern of the wave, times 0.7 on a weekend
expected_in_wave(wave_index, weekend) ==
    IF weekend
    THEN FTrunc(FMul(FInt(EXPECTED_WAVES[IMin(IMax(wave_index, 0), Len(EXPECTED_WAVES) - 1) + 1]),
                     FDec(7, 10)))
    ELSE EXPECTED_WAVES[IMin(IMax(wave_index, 0), Len(EXPECTED_WAVES) - 1) + 1]

\* base_for_wave = remaining_expected / remaining_waves
base_for_wave(total_expected_diners, diners_so_far, wave_index) ==
    FDivInt(FInt(IMax(total_expected_diners - diners_so_far, 0)),
            IMax(Len(EXPECTED_WAVES) - wave_index, 1))

\* predicted = 0.5 * expected_in_wave + 0.5 * base_for_wave
blend(half, expected, base) == FAdd(FMul(half, FInt(expected)), FMul(half, base))

predict_next_wave(total_expected_diners, diners_so_far, wave_index, feedback_multiplier, weekend) ==
    IMax(FTrunc(FMul(blend(FHalf, expected_in_wave(wave_index, weekend),
                           base_for_wave(total_expected_diners, diners_so_far, wave_index)),
                     feedback_multiplier)),
         0)

\* ------------------------------------------------------------------------
\* Feedback signal aggregator
\* ------------------------------------------------------------------------
\* sum(q) of ints, q[lo..hi] split in halves
RECURSIVE SumRange(_, _, _)
SumRange(q, lo, hi) ==
    IF lo > hi THEN 0
    ELSE IF lo = hi THEN q[lo]
    ELSE LET mid == (lo + hi) \div 2
         IN  SumRange(q, lo, mid) + SumRange(q, mid + 1, hi)

SumSeq(q) == SumRange(q, 1, Len(q))

\* sum(xs) of floats, left to right
RECURSIVE FSumFrom(_, _)
FSumFrom(acc, xs) == IF xs = <<>> THEN acc ELSE FSumFrom(FAdd(acc, xs[1]), Tail(xs))
FSum(xs) == FSumFrom(FZero, xs)

\* the map with a step of 33 per rating point in place of 67 / 2.0
compute_satisfaction_percent_step33(feedback_scores) ==
    IF feedback_scores = <<>> THEN -1
    ELSE FTrunc(FAdd(FInt(33),
                     FMul(FSub(FDivInt(FInt(SumSeq(feedback_scores)), Len(feedback_scores)),
                               FInt(1)),
                          FInt(33))))

\* compute_satisfaction_percent; None is -1
compute_satisfaction_percent(feedback_scores) ==
    IF feedback_scores = <<>> THEN -1
    ELSE FTrunc(FAdd(FInt(33),
                     FMul(FSub(FDivInt(FInt(SumSeq(feedback_scores)), Len(feedback_scores)),
                               FInt(1)),
                          FDivInt(FInt(67), 2))))

NoTimestamp == -1

\* float(raw) of an answer string: <<TRUE, value>>, or <<FALSE, _>> for ValueError
IntegerTexts ==
    [i \in {"0", "1", "2", "3", "4", "5", "100", "-100"} |->
        CASE i = "0" -> 0 [] i = "1" -> 1 [] i = "2" -> 2 [] i = "3" -> 3 [] i = "4" -> 4
          [] i = "5" -> 5 [] i = "100" -> 100 [] i = "-100" -> -100]

ParseFloat(raw) ==
    IF raw \in DOMAIN IntegerTexts THEN <<TRUE, FInt(IntegerTexts[raw])>>
    ELSE IF raw = "nan" THEN <<TRUE, FNaN>>
    ELSE <<FALSE, FZero>>

\* stats[key].append(str(value)) for each (key, value) of responses, in order;
\* stats is the list of [key, values] in order of first appearance
RECURSIVE AddResponses(_, _)
AddResponses(stats, responses) ==
    IF responses = <<>> THEN stats
    ELSE LET key   == responses[1][1]
             value == responses[1][2]
             at    == {i \in 1..Len(stats) : stats[i].key = key}
             next  == IF at = {}
                      THEN Append(stats, [key |-> key, values |-> <<value>>])
                      ELSE LET i == CHOOSE j \in at : TRUE
                           IN  [stats EXCEPT ![i].values = Append(@, value)]
         IN  AddResponses(next, Tail(responses))

\* the scan of entries, newest first, from position i down
RECURSIVE ScanEntries(_, _, _, _, _)
ScanEntries(entries, i, samples, stats, cutoff) ==
    IF i = 0 \/ samples >= MAX_DETAILED_FEEDBACK_SAMPLES THEN stats
    ELSE LET entry == entries[i]
         IN  IF entry.timestamp # NoTimestamp /\ entry.timestamp < cutoff
             THEN ScanEntries(entries, i - 1, samples, stats, cutoff)
             ELSE ScanEntries(entries, i - 1, samples + 1,
                              AddResponses(stats, entry.responses), cutoff)

\* numbers.append(float(raw)), skipped on ValueError
Parsed(p) == IF p[1] THEN <<p[2]>> ELSE <<>>

RECURSIVE ParsedNumbers(_)
ParsedNumbers(values) ==
    IF values = <<>> THEN <<>>
    ELSE Parsed(ParseFloat(values[1])) \o ParsedNumbers(Tail(values))

CategoryWeights(mapping, values) ==
    [i \in 1..Len(values) |->
        IF values[i] \in DOMAIN mapping THEN mapping[values[i]] ELSE FZero]

\* the numeric branch of a key: <<contributes, delta>> for the parsed numbers
NumericDelta(numbers, weight) ==
    IF numbers = <<>> THEN <<FALSE, FZero>>
    ELSE <<TRUE, FMul(FDivInt(FSub(FDivInt(FSum(numbers), Len(numbers)), FInt(3)), 2), weight)>>

\* the categorical branch of a key: delta = sum(weights) / len(weights)
CategoricalDelta(weights) == <<TRUE, FDivInt(FSum(weights), Len(weights))>>

\* <<contributes, delta>> of one key of stats under the two weight tables
KeyDeltaWith(stat, numeric, categorical) ==
    IF stat.key \in DOMAIN numeric
    THEN NumericDelta(ParsedNumbers(stat.values), numeric[stat.key])
    ELSE IF stat.key \in DOMAIN categorical
    THEN CategoricalDelta(CategoryWeights(categorical[stat.key], stat.values))
    ELSE <<FALSE, FZero>>

KeyDelta(stat) == KeyDeltaWith(stat, NUMERIC_FEEDBACK_WEIGHTS, CATEGORICAL_FEEDBACK_WEIGHTS)

\* total_delta += delta; adjustments[key] = round(delta, 4)
AddDelta(acc, key, kd) ==
    IF kd[1]
    THEN [total_delta |-> FAdd(acc.total_delta, kd[2]),
          adjustments |-> Append(acc.adjustments, <<key, FRound4(kd[2])>>)]
    ELSE acc

\* the loop over stats: acc = [total_delta, adjustments]
RECURSIVE FoldStats(_, _)
FoldStats(acc, stats) ==
    IF stats = <<>> THEN acc
    ELSE FoldStats(AddDelta(acc, stats[1].key, KeyDelta(stats[1])), Tail(stats))

\* BoundDelta without the clamp
BoundDelta_unclamped(total_delta) == total_delta

\* max(-0.2, min(total_delta, 0.18))
BoundDelta(total_delta) == FMax(FDec(-2, 10), FMin(total_delta, FDec(18, 100)))

\* the outcome for the summed adjustments and the bounded delta
MultiplierResult(adjustments, bounded_delta) ==
    [multiplier  |-> FAdd(FInt(1), bounded_delta),
     adjustments |-> Append(adjustments, <<"combined_delta", FRound4(bounded_delta)>>)]

BoundedResult(summed) == MultiplierResult(summed.adjustments, BoundDelta(summed.total_delta))

\* the tray rating part: rating_delta = (avg_rating - 2) * 0.08
RatingDelta(scores) ==
    FMul(FSub(FDivInt(FInt(SumSeq(scores)), Len(scores)), FInt(2)), FDec(8, 100))

Rated(rating_delta) ==
    [total_delta |-> FAdd(FZero, rating_delta),
     adjustments |-> <<<<"tray_rating", FRound4(rating_delta)>>>>]

\* utcnow is in minutes; result [multiplier, adjustments]; adjustments is the
\* list of <<key, rounded delta>> in insertion order
compute_feedback_demand_multiplier(scores, entries, utcnow) ==
    BoundedResult(
        FoldStats(IF scores # <<>> THEN Rated(RatingDelta(scores))
                  ELSE [total_delta |-> FZero, adjustments |-> <<>>],
                  ScanEntries(entries, Len(entries), 0, <<>>,
                              utcnow - DETAILED_FEEDBACK_WINDOW_MINUTES)))

\* ------------------------------------------------------------------------
\* State
\* ------------------------------------------------------------------------
VARIABLES
    SERVICE_DAYS,   \* (site_id, today) -> ServiceDay; the domain is the set of created keys
    store,          \* the EventStore lists of each session key
    redis,          \* "none": REDIS_CLIENT is None; "up" / "down": calls succeed / raise RedisError
    DEMO_MODE,      \* FLOWHARMONY_DEMO_MODE
    weekend,        \* datetime.now().weekday() >= 5
    now,            \* wall clock, minutes after midnight
    response,       \* the response to the last request
    threads,        \* the in-flight requests of the threaded server
    args,           \* arguments of the function under evaluation
    result          \* and its value

vars == <<SERVICE_DAYS, store, redis, DEMO_MODE, weekend, now, response, threads, args, result>>

\* bounds of the exploration
Sites == {"flavoria", "campus_west"}
ClockStart == 715
TickMinutes == 10
MaxTicks == 1
MaxDiners == 348
MaxScores == 13
MaxDetailed == 1
MaxReactions == 1

EmptyStore == [scores |-> <<>>, detailed_feedback |-> <<>>, reactions |-> <<>>]

LastN(q, n) == IF Len(q) <= n THEN q ELSE SubSeq(q, Len(q) - n + 1, Len(q))

\* what a request reads from its surroundings: the EventStore and its
\* reachability, the wall clock and the process configuration
Env == [redis |-> redis, store |-> store, now |-> now,
        DEMO_MODE |-> DEMO_MODE, weekend |-> weekend]

\* _load_list_entries that reads the list whether or not the store answers
load_list_entries_regardless(env, site_id, prefix, limit) ==
    IF env.redis # "none" THEN LastN(env.store[site_id][prefix], limit) ELSE <<>>

\* _load_list_entries: the newest entries, [] without a client or on RedisError
load_list_entries(env, site_id, prefix, limit) ==
    IF env.redis = "up" THEN LastN(env.store[site_id][prefix], limit) ELSE <<>>

\* _persist_list_entry on a store value: rpush + ltrim, nothing without a
\* client or on RedisError
persist_list_entry(env, st, site_id, prefix, payload, limit) ==
    IF env.redis = "up"
    THEN [st EXCEPT ![site_id][prefix] = LastN(Append(@, payload), limit)]
    ELSE st

\* _hydrate_service_day_from_store
hydrate_service_day_from_store(env, service_day, site_id) ==
    LET reactions == load_list_entries(env, site_id, "reactions", MAX_REACTIONS_STORED)
        scores    == load_list_entries(env, site_id, "scores", FEEDBACK_SCORE_HISTORY_LIMIT)
        detailed  == load_list_entries(env, site_id, "detailed_feedback", DETAILED_FEEDBACK_HISTORY_LIMIT)
    IN  [service_day EXCEPT
            !.reaction_stream   = IF reactions # <<>> THEN reactions ELSE @,
            !.feedback_scores   = IF scores # <<>> THEN scores ELSE @,
            !.detailed_feedback = IF detailed # <<>> THEN detailed ELSE @]

\* the ServiceDay built from the preset, before hydration
NewServiceDay(site_id) ==
    LET preset == Preset(site_id)
    IN  [total_expected_diners |-> preset.total_expected_diners,
         diners_so_far         |-> preset.diners_so_far,
         wave_index            |-> preset.wave_index,
         pan_fill_percent      |-> preset.pan_fill_percent,
         feedback_scores       |-> preset.feedback_scores,
         detailed_feedback     |-> <<>>,
         reaction_stream       |-> <<>>,
         last_decision         |-> <<>>]

\* a lookup that keeps no session but the requested one
get_or_create_service_day_alone(env, days, site_id) ==
    [k \in {site_id} |->
        IF k \in DOMAIN days THEN days[k]
        ELSE hydrate_service_day_from_store(env, NewServiceDay(site_id), site_id)]

\* SERVICE_DAYS after get_or_create_service_day(site_id)
get_or_create_service_day(env, days, site_id) ==
    IF site_id \in DOMAIN days THEN days
    ELSE [k \in DOMAIN days \cup {site_id} |->
            IF k = site_id
            THEN hydrate_service_day_from_store(env, NewServiceDay(site_id), site_id)
            ELSE days[k]]

\* get_feedback_scores: [scores returned, service_day afterwards]
get_feedback_scores(env, service_day, site_id) ==
    LET cached == load_list_entries(env, site_id, "scores", FEEDBACK_SCORE_HISTORY_LIMIT)
    IN  IF env.redis # "none" /\ cached # <<>>
        THEN [value |-> cached, service_day |-> [service_day EXCEPT !.feedback_scores = cached]]
        ELSE [value |-> LastN(service_day.feedback_scores, FEEDBACK_SCORE_HISTORY_LIMIT),
              service_day |-> service_day]

\* get_detailed_feedback_entries
get_detailed_feedback_entries(env, service_day, site_id, limit) ==
    LET cached == load_list_entries(env, site_id, "detailed_feedback",
                                    IMax(limit, DETAILED_FEEDBACK_HISTORY_LIMIT))
    IN  IF env.redis # "none" /\ cached # <<>>
        THEN [value |-> LastN(cached, limit),
              service_day |-> [service_day EXCEPT !.detailed_feedback = cached]]
        ELSE [value |-> LastN(service_day.detailed_feedback, limit),
              service_day |-> service_day]

\* get_recent_reactions without the test for an empty list
get_recent_reactions_overwriting(env, service_day, site_id) ==
    [service_day EXCEPT !.reaction_stream =
        load_list_entries(env, site_id, "reactions", MAX_REACTIONS_STORED)]

\* get_recent_reactions: the service_day afterwards (the returned list is
\* presentation only)
get_recent_reactions(env, service_day, site_id) ==
    LET entries == load_list_entries(env, site_id, "reactions", MAX_REACTIONS_STORED)
    IN  IF env.redis # "none" /\ entries # <<>>
        THEN [service_day EXCEPT !.reaction_stream = entries]
        ELSE service_day

\* append_reaction_entry: [service_day, store] afterwards
append_reaction_entry(env, ss, site_id, response_key, value, source) ==
    LET reaction == [timestamp |-> env.now, response_key |-> response_key,
                     value |-> value, source |-> source]
        stream   == Append(ss.service_day.reaction_stream, reaction)
    IN  [service_day |-> [ss.service_day EXCEPT !.reaction_stream =
                             IF Len(stream) > MAX_REACTIONS_STORED
                             THEN LastN(stream, MAX_REACTIONS_STORED) ELSE stream],
         store |-> persist_list_entry(env, ss.store, site_id, "reactions", reaction, MAX_REACTIONS_STORED)]

\* AppendReactions that stops after the first response
AppendReactions_first_only(env, ss, site_id, responses) ==
    IF responses = <<>> THEN ss
    ELSE append_reaction_entry(env, ss, site_id, responses[1][1], responses[1][2], "extended")

RECURSIVE AppendReactions(_, _, _, _)
AppendReactions(env, ss, site_id, responses) ==
    IF responses = <<>> THEN ss
    ELSE AppendReactions(env,
            append_reaction_entry(env, ss, site_id, responses[1][1], responses[1][2], "extended"),
            site_id, Tail(responses))

\* ------------------------------------------------------------------------
\* compute_current_state: [service_day, state] for an existing session
\* ------------------------------------------------------------------------
\* signal_level with the warning test ahead of the critical one
signal_level_warning_first(suggested_grams, pan_fill_percent) ==
    IF suggested_grams >= 600 \/ pan_fill_percent <= 55 THEN "warning"
    ELSE IF suggested_grams >= 1800 \/ pan_fill_percent <= 35 THEN "critical"
    ELSE "ready"

signal_level(suggested_grams, pan_fill_percent) ==
    IF suggested_grams >= 1800 \/ pan_fill_percent <= 35 THEN "critical"
    ELSE IF suggested_grams >= 600 \/ pan_fill_percent <= 55 THEN "warning"
    ELSE "ready"

target_wave_index(t, site) ==
    LET waves            == get_wave_template(site)
        current_wave_idx == get_current_wave_index(t, site)
    IN  IF waves = <<>> THEN current_wave_idx
        ELSE IF t < waves[1].start_time THEN waves[1].index
        ELSE IMin(current_wave_idx + 1, waves[Len(waves)].index)

\* the DEMO_MODE corrections of the prediction
demo_predicted(predicted, lunch_finished, diners_remaining) ==
    LET p1 == IF lunch_finished /\ diners_remaining # 0
              THEN IMax(predicted, IMin(IMax(diners_remaining \div 3, 14), 40))
              ELSE predicted
    IN  IF p1 <= 0 /\ diners_remaining # 0
        THEN IMax(12, IMin(diners_remaining, 32))
        ELSE p1

\* demo_pan with the sign of the consumption flipped
demo_pan_adds(pan_fill_percent) ==
    IF pan_fill_percent >= 75 THEN IMax(45, pan_fill_percent + 20) ELSE pan_fill_percent

\* the DEMO_MODE consumption of the pan
demo_pan(pan_fill_percent) ==
    IF pan_fill_percent >= 75 THEN IMax(45, pan_fill_percent - 20) ELSE pan_fill_percent

\* a status that is never carried over
carried_status_never(last_decision, target_wave_idx) == "pending"

\* carried_status without the comparison of the wave indexes
carried_status_any_wave(last_decision, target_wave_idx) ==
    IF last_decision # <<>> THEN last_decision[1].status ELSE "pending"

\* the status of the card that replaces last_decision
carried_status(last_decision, target_wave_idx) ==
    IF last_decision # <<>> /\ last_decision[1].wave_index = target_wave_idx
    THEN last_decision[1].status
    ELSE "pending"

\* the decision card of a recomputation
decision_card(target_wave_idx, timestamp, predicted, pan, suggested_grams, satisfaction, status) ==
    [wave_index |-> target_wave_idx,
     timestamp |-> timestamp,
     predicted_diners_next_wave |-> predicted,
     suggested_grams |-> suggested_grams,
     pan_fill_percent |-> pan,
     satisfaction_percent |-> satisfaction,
     service_slot |-> PRIMARY_SERVICE_SLOT,
     status |-> status]

\* the session and the response once the card is known
prep_state(env, site_id, sd2, fb, card) ==
    [service_day |->
        get_recent_reactions(env,
            [sd2 EXCEPT !.pan_fill_percent = card.pan_fill_percent,
                        !.last_decision = <<card>>],
            site_id),
     state |-> [diners_so_far |-> sd2.diners_so_far,
                wave_index |-> card.wave_index,
                predicted_diners_next_wave |-> card.predicted_diners_next_wave,
                suggested_grams |-> card.suggested_grams,
                pan_fill_percent |-> card.pan_fill_percent,
                satisfaction_percent |-> card.satisfaction_percent,
                feedback_multiplier |-> FRound3(fb.multiplier),
                feedback_adjustments |-> fb.adjustments,
                last_decision |-> card,
                signal_level |-> signal_level(card.suggested_grams, card.pan_fill_percent)]]

\* the suggestion for the prediction and the pan after the demo consumption
suggest(env, site_id, site, sd2, target_wave_idx, fb, predicted, pan, satisfaction) ==
    prep_state(env, site_id, sd2, fb,
               decision_card(target_wave_idx, env.now, predicted, pan,
                             compute_suggested_grams(predicted, pan, site.portion_grams,
                                                     site.pan_capacity_portions),
                             satisfaction,
                             carried_status(sd2.last_decision, target_wave_idx)))

\* the prediction from the forecast, and the pan
predict(env, site_id, site, sd2, target_wave_idx, lunch_finished, fb, forecast, satisfaction, pan_read) ==
    suggest(env, site_id, site, sd2, target_wave_idx, fb,
            IF env.DEMO_MODE
            THEN demo_predicted(forecast, lunch_finished,
                                IMax(sd2.total_expected_diners - sd2.diners_so_far, 0))
            ELSE forecast,
            IF env.DEMO_MODE /\ pan_read >= 75 THEN demo_pan(pan_read)
            ELSE sd2.pan_fill_percent,
            satisfaction)

\* the forecast under the feedback multiplier fb
forecast_with(env, site_id, site, sd2, target_wave_idx, lunch_finished, fb, satisfaction, pan_read) ==
    predict(env, site_id, site, sd2, target_wave_idx, lunch_finished, fb,
            IF ~lunch_finished \/ env.DEMO_MODE
            THEN predict_next_wave(sd2.total_expected_diners, sd2.diners_so_far,
                                   target_wave_idx, fb.multiplier, env.weekend)
            ELSE 0,
            satisfaction, pan_read)

\* the feedback read through get_feedback_scores (fs) and
\* get_detailed_feedback_entries (de)
aggregate(env, site_id, site, target_wave_idx, lunch_finished, fs, de, pan_read) ==
    forecast_with(env, site_id, site, de.service_day, target_wave_idx, lunch_finished,
                  compute_feedback_demand_multiplier(fs.value, de.value, env.now),
                  compute_satisfaction_percent(fs.value), pan_read)

read_feedback(env, site_id, site, target_wave_idx, lunch_finished, fs, pan_read) ==
    aggregate(env, site_id, site, target_wave_idx, lunch_finished, fs,
              get_detailed_feedback_entries(env, fs.service_day, site_id,
                                            DETAILED_FEEDBACK_HISTORY_LIMIT),
              pan_read)

\* the session at the wave target_wave_idx
at_wave(env, service_day, site_id, site, target_wave_idx, pan_read) ==
    read_feedback(env, site_id, site, target_wave_idx,
                  env.now % MinutesPerDay >= site.lunch_window_end,
                  get_feedback_scores(env, [service_day EXCEPT !.wave_index = target_wave_idx],
                                      site_id),
                  pan_read)

\* compute_current_state when the DEMO block's read of the pan returned
\* pan_read (the block tests and lowers the value it read; every later read
\* sees the session's field)
compute_state_reading(env, service_day, site_id, pan_read) ==
    at_wave(env, service_day, site_id, get_site_config(site_id),
            target_wave_index(env.now % MinutesPerDay, get_site_config(site_id)), pan_read)

compute_current_state(env, service_day, site_id) ==
    compute_state_reading(env, service_day, site_id, service_day.pan_fill_percent)

\* ------------------------------------------------------------------------
\* Decision lifecycle
\* ------------------------------------------------------------------------
\* a request payload holds each identity field as <<>> (absent) or <<value>>
EmptyPayload == [decision_wave_index |-> <<>>, decision_timestamp |-> <<>>, service_slot |-> <<>>]

\* TRUE iff get_matching_decision returns the card
\* a comparison that wants every identity field, each equal to the card's
get_matching_decision_strict(service_day, payload) ==
    /\ service_day.last_decision # <<>>
    /\ payload = [decision_wave_index |-> <<service_day.last_decision[1].wave_index>>,
                  decision_timestamp  |-> <<service_day.last_decision[1].timestamp>>,
                  service_slot        |-> <<service_day.last_decision[1].service_slot>>]

\* the comparison without the timestamp
get_matching_decision_untimed(service_day, payload) ==
    /\ service_day.last_decision # <<>>
    /\ LET card == service_day.last_decision[1]
       IN  \/ payload = EmptyPayload
           \/ /\ payload.decision_wave_index # <<>> => card.wave_index = payload.decision_wave_index[1]
              /\ payload.service_slot # <<>> => card.service_slot = payload.service_slot[1]

get_matching_decision(service_day, payload) ==
    /\ service_day.last_decision # <<>>
    /\ LET card == service_day.last_decision[1]
       IN  \/ payload = EmptyPayload
           \/ /\ payload.decision_wave_index # <<>> => card.wave_index = payload.decision_wave_index[1]
              /\ payload.decision_timestamp # <<>> => payload.decision_timestamp[1] = card.timestamp
              /\ payload.service_slot # <<>> => card.service_slot = payload.service_slot[1]

\* ------------------------------------------------------------------------
\* Requests (one handler per action) and the environment
\* ------------------------------------------------------------------------
NoResponse == [op |-> "none"]

TypeOK ==
    /\ DOMAIN SERVICE_DAYS \subseteq Sites
    /\ redis \in {"none", "up", "down"}
    /\ DEMO_MODE \in BOOLEAN
    /\ weekend \in BOOLEAN
    /\ now \in Nat

\* GET /api/state
recomputeState(site_id) ==
    \E env \in {Env} :
    \E days \in {get_or_create_service_day(env, SERVICE_DAYS, site_id)} :
    \E out \in {compute_current_state(env, days[site_id], site_id)} :
        /\ SERVICE_DAYS' = [days EXCEPT ![site_id] = out.service_day]
        /\ response' = [op |-> "recomputeState", site_id |-> site_id, status |-> 200,
                        state |-> out.state]
        /\ UNCHANGED <<store, redis, DEMO_MODE, weekend, now, threads, args, result>>

\* POST /api/increment_diner
incrementDiners(site_id, delta) ==
    \E env \in {Env} :
    \E days \in {get_or_create_service_day(env, SERVICE_DAYS, site_id)} :
    \E total \in {IMax(days[site_id].diners_so_far + delta, 0)} :
        /\ SERVICE_DAYS' = [days EXCEPT ![site_id].diners_so_far = total]
        /\ response' = [op |-> "incrementDiners", site_id |-> site_id, status |-> 200,
                        delta |-> delta, diners_so_far |-> total]
        /\ UNCHANGED <<store, redis, DEMO_MODE, weekend, now, threads, args, result>>

RatingText == <<"1", "2", "3">>

\* the accepted branch of api_feedback: [service_day, store] afterwards
record_quick_feedback(env, service_day, site_id, rating) ==
    LET scored == [service_day EXCEPT !.feedback_scores =
                      LastN(Append(@, rating), FEEDBACK_SCORE_HISTORY_LIMIT)]
        st1    == persist_list_entry(env, env.store, site_id, "scores", rating,
                                     FEEDBACK_SCORE_HISTORY_LIMIT)
    IN  append_reaction_entry(env, [service_day |-> scored, store |-> st1],
                              site_id, "lunch_pulse", RatingText[rating], "quick")

\* POST /api/feedback; rating is int(data.get("rating", 0))
submitQuickFeedback(site_id, rating) ==
    \E env \in {Env} :
    \E days \in {get_or_create_service_day(env, SERVICE_DAYS, site_id)} :
        IF rating \in {1, 2, 3}
        THEN \E ss \in {record_quick_feedback(env, days[site_id], site_id, rating)} :
                 /\ SERVICE_DAYS' = [days EXCEPT ![site_id] = ss.service_day]
                 /\ store' = ss.store
                 /\ response' = [op |-> "submitQuickFeedback", site_id |-> site_id,
                                 status |-> 200, rating |-> rating]
                 /\ UNCHANGED <<redis, DEMO_MODE, weekend, now, threads, args, result>>
        ELSE /\ SERVICE_DAYS' = days
             /\ response' = [op |-> "submitQuickFeedback", site_id |-> site_id,
                             status |-> 400, rating |-> rating]
             /\ UNCHANGED <<store, redis, DEMO_MODE, weekend, now, threads, args, result>>

\* the accepted branch of api_feedback_extended: [service_day, store]
\* afterwards; total_entries reads the store that the request has written
record_detailed_feedback(env, service_day, site_id, responses) ==
    LET entry    == [question_set |-> "general", timestamp |-> env.now, responses |-> responses]
        appended == [service_day EXCEPT !.detailed_feedback =
                        LastN(Append(@, entry), DETAILED_FEEDBACK_HISTORY_LIMIT)]
        st1      == persist_list_entry(env, env.store, site_id, "detailed_feedback", entry,
                                       DETAILED_FEEDBACK_HISTORY_LIMIT)
        ss       == AppendReactions(env, [service_day |-> appended, store |-> st1], site_id, responses)
        cached   == IF env.redis = "up" THEN ss.store[site_id].detailed_feedback ELSE <<>>
    IN  [service_day |-> IF cached # <<>>
                         THEN [ss.service_day EXCEPT !.detailed_feedback = cached]
                         ELSE ss.service_day,
         store |-> ss.store]

\* POST /api/feedback_extended; responses is the list of (key, answer) of the
\* payload's map, <<>> when it is missing, empty or not a map
submitDetailedFeedback(site_id, responses) ==
    \E env \in {Env} :
    \E days \in {get_or_create_service_day(env, SERVICE_DAYS, site_id)} :
        IF responses = <<>>
        THEN /\ SERVICE_DAYS' = days
             /\ response' = [op |-> "submitDetailedFeedback", site_id |-> site_id,
                             status |-> 400, responses |-> responses]
             /\ UNCHANGED <<store, redis, DEMO_MODE, weekend, now, threads, args, result>>
        ELSE \E ss \in {record_detailed_feedback(env, days[site_id], site_id, responses)} :
                 /\ SERVICE_DAYS' = [days EXCEPT ![site_id] = ss.service_day]
                 /\ store' = ss.store
                 /\ response' = [op |-> "submitDetailedFeedback", site_id |-> site_id,
                                 status |-> 200, responses |-> responses,
                                 total |-> Len(ss.service_day.detailed_feedback)]
                 /\ UNCHANGED <<redis, DEMO_MODE, weekend, now, threads, args, result>>

\* a done that is refused once the card is done
markDecisionDone_once(site_id, payload) ==
    \E env \in {Env} :
    \E days \in {get_or_create_service_day(env, SERVICE_DAYS, site_id)} :
    \E site \in {get_site_config(site_id)} :
        IF \/ ~get_matching_decision(days[site_id], payload)
           \/ days[site_id].last_decision[1].status = "done"
        THEN /\ SERVICE_DAYS' = days
             /\ response' = [op |-> "markDecisionDone", site_id |-> site_id, status |-> 409,
                             payload |-> payload]
             /\ UNCHANGED <<store, redis, DEMO_MODE, weekend, now, threads, args, result>>
        ELSE \E pan \in {adjust_pan_after_refill(days[site_id].pan_fill_percent,
                                                 days[site_id].last_decision[1].suggested_grams,
                                                 site.portion_grams, site.pan_capacity_portions)} :
                 /\ SERVICE_DAYS' = [days EXCEPT ![site_id].pan_fill_percent = pan,
                                                 ![site_id].last_decision[1].status = "done"]
                 /\ response' = [op |-> "markDecisionDone", site_id |-> site_id, status |-> 200,
                                 payload |-> payload, pan_fill_percent |-> pan]
                 /\ UNCHANGED <<store, redis, DEMO_MODE, weekend, now, threads, args, result>>

\* POST /api/done
markDecisionDone(site_id, payload) ==
    \E env \in {Env} :
    \E days \in {get_or_create_service_day(env, SERVICE_DAYS, site_id)} :
    \E site \in {get_site_config(site_id)} :
        IF ~get_matching_decision(days[site_id], payload)
        THEN /\ SERVICE_DAYS' = days
             /\ response' = [op |-> "markDecisionDone", site_id |-> site_id, status |-> 409,
                             payload |-> payload]
             /\ UNCHANGED <<store, redis, DEMO_MODE, weekend, now, threads, args, result>>
        ELSE \E pan \in {adjust_pan_after_refill(days[site_id].pan_fill_percent,
                                                 days[site_id].last_decision[1].suggested_grams,
                                                 site.portion_grams, site.pan_capacity_portions)} :
                 /\ SERVICE_DAYS' = [days EXCEPT ![site_id].pan_fill_percent = pan,
                                                 ![site_id].last_decision[1].status = "done"]
                 /\ response' = [op |-> "markDecisionDone", site_id |-> site_id, status |-> 200,
                                 payload |-> payload, pan_fill_percent |-> pan]
                 /\ UNCHANGED <<store, redis, DEMO_MODE, weekend, now, threads, args, result>>

\* a skip that also books the refill, as api_done does
markDecisionSkipped_refilling(site_id, payload) ==
    \E env \in {Env} :
    \E days \in {get_or_create_service_day(env, SERVICE_DAYS, site_id)} :
    \E site \in {get_site_config(site_id)} :
        IF ~get_matching_decision(days[site_id], payload)
        THEN /\ SERVICE_DAYS' = days
             /\ response' = [op |-> "markDecisionSkipped", site_id |-> site_id, status |-> 409,
                             payload |-> payload]
             /\ UNCHANGED <<store, redis, DEMO_MODE, weekend, now, threads, args, result>>
        ELSE \E pan \in {adjust_pan_after_refill(days[site_id].pan_fill_percent,
                                                 days[site_id].last_decision[1].suggested_grams,
                                                 site.portion_grams, site.pan_capacity_portions)} :
                 /\ SERVICE_DAYS' = [days EXCEPT ![site_id].pan_fill_percent = pan,
                                                 ![site_id].last_decision[1].status = "skipped"]
                 /\ response' = [op |-> "markDecisionSkipped", site_id |-> site_id, status |-> 200,
                                 payload |-> payload, card_status |-> "skipped"]
                 /\ UNCHANGED <<store, redis, DEMO_MODE, weekend, now, threads, args, result>>

\* POST /api/skip
markDecisionSkipped(site_id, payload) ==
    \E env \in {Env} :
    \E days \in {get_or_create_service_day(env, SERVICE_DAYS, site_id)} :
        IF ~get_matching_decision(days[site_id], payload)
        THEN /\ SERVICE_DAYS' = days
             /\ response' = [op |-> "markDecisionSkipped", site_id |-> site_id, status |-> 409,
                             payload |-> payload]
             /\ UNCHANGED <<store, redis, DEMO_MODE, weekend, now, threads, args, result>>
        ELSE /\ SERVICE_DAYS' = [days EXCEPT ![site_id].last_decision[1].status = "skipped"]
             /\ response' = [op |-> "markDecisionSkipped", site_id |-> site_id, status |-> 200,
                             payload |-> payload, card_status |-> "skipped"]
             /\ UNCHANGED <<store, redis, DEMO_MODE, weekend, now, threads, args, result>>

\* POST /api/reset_day: the session is popped; the store's lists are deleted
\* unless there is no client or the call raises RedisError (swallowed)
resetSession(site_id) ==
    /\ SERVICE_DAYS' = [k \in DOMAIN SERVICE_DAYS \ {site_id} |-> SERVICE_DAYS[k]]
    /\ store' = IF redis = "up" THEN [store EXCEPT ![site_id] = EmptyStore] ELSE store
    /\ response' = [op |-> "resetSession", site_id |-> site_id, status |-> 200]
    /\ UNCHANGED <<redis, DEMO_MODE, weekend, now, threads, args, result>>

\* time passes
Tick ==
    /\ now + TickMinutes <= ClockStart + MaxTicks * TickMinutes
    /\ now' = now + TickMinutes
    /\ response' = NoResponse
    /\ UNCHANGED <<SERVICE_DAYS, store, redis, DEMO_MODE, weekend, threads, args, result>>

\* the EventStore becomes unreachable, or reachable again
RedisFlip ==
    /\ redis # "none"
    /\ redis' = IF redis = "up" THEN "down" ELSE "up"
    /\ response' = NoResponse
    /\ UNCHANGED <<SERVICE_DAYS, store, DEMO_MODE, weekend, now, threads, args, result>>

\* ------------------------------------------------------------------------
\* Request inputs
\* ------------------------------------------------------------------------
Deltas == {200}
Ratings == {0, 3}
ResponseChoices ==
    { <<>>,
      << <<"wait_time", "too_long">> >> }

\* the identity fields of a card, as a client echoes them
identity_of(card) ==
    [decision_wave_index |-> <<card.wave_index>>,
     decision_timestamp  |-> <<card.timestamp>>,
     service_slot        |-> <<card.service_slot>>]

\* payloads as a client can send them: no identity, the active card's
\* identity, the identity without the slot, and the identity of an earlier
\* card (another wave, another timestamp)
PayloadsFor(card) ==
    {EmptyPayload,
     identity_of(card),
     [identity_of(card) EXCEPT !.service_slot = <<>>],
     [identity_of(card) EXCEPT !.decision_wave_index = <<(card.wave_index + 4) % 5>>],
     [identity_of(card) EXCEPT !.decision_timestamp = <<card.timestamp - TickMinutes>>]}

DecisionPayloads(site_id) ==
    IF site_id \in DOMAIN SERVICE_DAYS /\ SERVICE_DAYS[site_id].last_decision # <<>>
    THEN PayloadsFor(SERVICE_DAYS[site_id].last_decision[1])
    ELSE PayloadsFor([wave_index |-> 0, timestamp |-> now, service_slot |-> PRIMARY_SERVICE_SLOT])

ReqSites == {DEFAULT_SITE_ID}

Init ==
    /\ SERVICE_DAYS = << >>
    /\ store = [k \in Sites |-> EmptyStore]
    /\ redis = "none"
    /\ DEMO_MODE \in BOOLEAN
    /\ weekend = FALSE
    /\ now = ClockStart
    /\ response = NoResponse
    /\ threads = << >>
    /\ args = << >>
    /\ result = << >>

\* the session a request to site_id finds or creates
Session(site_id) == get_or_create_service_day(Env, SERVICE_DAYS, site_id)[site_id]

Next ==
    \/ \E site_id \in ReqSites : recomputeState(site_id)
    \/ \E site_id \in ReqSites, delta \in Deltas :
          /\ Session(site_id).diners_so_far + delta <= MaxDiners
          /\ incrementDiners(site_id, delta)
    \/ \E site_id \in ReqSites, rating \in Ratings :
          /\ Len(Session(site_id).feedback_scores) < MaxScores
          /\ Len(Session(site_id).reaction_stream) < MaxReactions
          /\ submitQuickFeedback(site_id, rating)
    \/ \E site_id \in ReqSites, responses \in ResponseChoices :
          /\ Len(Session(site_id).detailed_feedback) < MaxDetailed
          /\ Len(Session(site_id).reaction_stream) < MaxReactions
          /\ submitDetailedFeedback(site_id, responses)
    \/ \E site_id \in ReqSites : \E payload \in DecisionPayloads(site_id) : markDecisionDone(site_id, payload)
    \/ \E site_id \in ReqSites : \E payload \in DecisionPayloads(site_id) : markDecisionSkipped(site_id, payload)
    \/ \E site_id \in ReqSites : resetSession(site_id)
    \/ Tick

Spec == Init /\ [][Next]_vars

\* ------------------------------------------------------------------------
\* Decision lifecycle properties (specification Spec)
\* ------------------------------------------------------------------------
IdentityEquals(service_day, payload) ==
    /\ service_day.last_decision # <<>>
    /\ payload = identity_of(service_day.last_decision[1])

\* the exact refill of C2, in units of 1/(100 * capacity * portion_grams) pans
ExactRefill(pan_before, pan_after, grams, portion_grams, capacity_portions) ==
    pan_after * capacity_portions * portion_grams
        = IMin(100 * capacity_portions * portion_grams,
               pan_before * capacity_portions * portion_grams + 100 * grams)

\* C1: a done or skip request whose identity triple is not exactly the active
\* card's (or that finds no card) is rejected with 409 and leaves the session
\* as it was.
C1_StaleRejected ==
    [][\A site \in ReqSites :
          (/\ response'.op \in {"markDecisionDone", "markDecisionSkipped"}
           /\ response'.site_id = site
           /\ ~IdentityEquals(Session(site), response'.payload))
          => (response'.status = 409 /\ SERVICE_DAYS'[site] = Session(site))]_vars

\* a done request without identity fields has been accepted
C1_AcceptedWithoutIdentity ==
    /\ response.op = "markDecisionDone"
    /\ response.status = 200
    /\ response.payload = EmptyPayload

\* C2: a done request with the active card's identity succeeds, sets the card
\* to done and leaves the pan at exactly min(capacity, old portions +
\* suggested_grams / portion_grams).
C2_DoneAddsExactPortions ==
    [][\A site \in ReqSites :
          (/\ response'.op = "markDecisionDone"
           /\ response'.site_id = site
           /\ IdentityEquals(Session(site), response'.payload))
          => LET before == Session(site)
                 after  == SERVICE_DAYS'[site]
                 cfg    == get_site_config(site)
             IN  /\ response'.status = 200
                 /\ after.last_decision[1].status = "done"
                 /\ ExactRefill(before.pan_fill_percent, after.pan_fill_percent,
                                before.last_decision[1].suggested_grams,
                                cfg.portion_grams, cfg.pan_capacity_portions)]_vars

\* C3: a step that leaves a session with a higher pan fill than it had is a
\* successful markDecisionDone on that session.
C3_OnlyDoneRaisesPan ==
    [][\A site \in DOMAIN SERVICE_DAYS \cap DOMAIN SERVICE_DAYS' :
          SERVICE_DAYS'[site].pan_fill_percent > SERVICE_DAYS[site].pan_fill_percent
          => (/\ response'.op = "markDecisionDone"
              /\ response'.status = 200
              /\ response'.site_id = site)]_vars

\* a successful done has left the pan above the fill its card recorded
C3_DoneRaised ==
    \E site \in DOMAIN SERVICE_DAYS :
        /\ response.op = "markDecisionDone"
        /\ response.status = 200
        /\ response.site_id = site
        /\ SERVICE_DAYS[site].pan_fill_percent
               > SERVICE_DAYS[site].last_decision[1].pan_fill_percent

\* C6: recomputeState installs a new card, stamped with the current time;
\* its status is the previous card's when there is one with the same wave
\* index, and pending otherwise.
C6_StatusCarriedWithinWave ==
    [][\A site \in ReqSites :
          (response'.op = "recomputeState" /\ response'.site_id = site)
          => LET prev == Session(site).last_decision
                 new  == SERVICE_DAYS'[site].last_decision
             IN  /\ new = <<response'.state.last_decision>>
                 /\ new[1].timestamp = now
                 /\ new[1].status =
                       IF prev # <<>> /\ prev[1].wave_index = new[1].wave_index
                       THEN prev[1].status
                       ELSE "pending"]_vars

\* a recomputation has carried a done status into the new card
C6_DoneCarried ==
    \E site \in DOMAIN SERVICE_DAYS :
        /\ response.op = "recomputeState"
        /\ response.site_id = site
        /\ SERVICE_DAYS[site].last_decision[1].status = "done"

\* ------------------------------------------------------------------------
\* compute_suggested_grams over its inputs (specification SpecGrams): the
\* prediction and the pan fill move up from 0 by one
\* ------------------------------------------------------------------------
MaxPredicted == 30
MaxFill == 100
PortionGramsChoices == {7, 160}
CapacityChoices == {3, 20}

\* no session, no store, no request
Quiet ==
    /\ SERVICE_DAYS = << >>
    /\ store = [k \in Sites |-> EmptyStore]
    /\ redis = "none"
    /\ DEMO_MODE = FALSE
    /\ weekend = FALSE
    /\ now = ClockStart
    /\ response = NoResponse
    /\ threads = << >>

grams_of(a) == compute_suggested_grams(a.predicted, a.fill, a.portion_grams, a.capacity)

InitGrams ==
    /\ Quiet
    /\ \E pg \in PortionGramsChoices, cap \in CapacityChoices :
          args = [predicted |-> 0, fill |-> 0, portion_grams |-> pg, capacity |-> cap]
    /\ result = grams_of(args)

MorePredicted ==
    /\ args.predicted < MaxPredicted
    /\ \E a \in {[args EXCEPT !.predicted = @ + 1]} :
          args' = a /\ result' = grams_of(a)
    /\ UNCHANGED <<SERVICE_DAYS, store, redis, DEMO_MODE, weekend, now, response, threads>>

FullerPan ==
    /\ args.fill < MaxFill
    /\ \E a \in {[args EXCEPT !.fill = @ + 1]} :
          args' = a /\ result' = grams_of(a)
    /\ UNCHANGED <<SERVICE_DAYS, store, redis, DEMO_MODE, weekend, now, response, threads>>

NextGrams == MorePredicted \/ FullerPan

SpecGrams == InitGrams /\ [][NextGrams]_vars

\* C10: compute_suggested_grams is within 0..4000, does not fall when the
\* prediction grows and does not grow when the pan fill grows (portion_grams
\* and capacity fixed and positive).
C10_MonotoneWithinCeiling ==
    /\ [](result \in 0..MaxSuggestedGrams)
    /\ [][/\ (args'.predicted >= args.predicted /\ args'.fill = args.fill) => result' >= result
          /\ (args'.fill >= args.fill /\ args'.predicted = args.predicted) => result' <= result]_vars

\* a suggestion strictly between the floor and the ceiling, for a pan that
\* is not empty
C10_BetweenFloorAndCeiling ==
    /\ args.predicted > 0
    /\ args.fill > 0
    /\ result > 0
    /\ result < MaxSuggestedGrams

\* ------------------------------------------------------------------------
\* compute_feedback_demand_multiplier over its inputs (specification
\* SpecMult): the rating history and the structured history grow by one
\* ------------------------------------------------------------------------
MaxRatings == 3
MaxEntries == 2

\* answer maps of a structured submission
AnswerChoices ==
    { << <<"wait_time", "quick">>, <<"overall_mood", "energized">>, <<"smell", "5">> >>,
      << <<"wait_time", "too_long">>, <<"flow_speed", "stalled">>, <<"smell", "1">> >>,
      << <<"smell", "nan">> >>,
      << <<"smell", "good">>, <<"music", "loud">>, <<"temperature", "lukewarm">> >>,
      << <<"value_for_money", "100">> >>,
      << <<"value_for_money", "-100">> >> }

\* entries of the window, one older than the window, one without timestamp
EntryChoices ==
    {[timestamp |-> now, responses |-> r] : r \in AnswerChoices}
    \cup {[timestamp |-> now - DETAILED_FEEDBACK_WINDOW_MINUTES - 1,
            responses |-> << <<"wait_time", "too_long">> >>],
           [timestamp |-> NoTimestamp,
            responses |-> << <<"overall_mood", "content">> >>]}

multiplier_of(a) == compute_feedback_demand_multiplier(a.scores, a.entries, now)

InitMult ==
    /\ Quiet
    /\ args = [scores |-> <<>>, entries |-> <<>>]
    /\ result = multiplier_of(args)

RateTray(rating) ==
    /\ Len(args.scores) < MaxRatings
    /\ \E a \in {[args EXCEPT !.scores = Append(@, rating)]} :
          args' = a /\ result' = multiplier_of(a)
    /\ UNCHANGED <<SERVICE_DAYS, store, redis, DEMO_MODE, weekend, now, response, threads>>

AnswerQuestions(entry) ==
    /\ Len(args.entries) < MaxEntries
    /\ \E a \in {[args EXCEPT !.entries = Append(@, entry)]} :
          args' = a /\ result' = multiplier_of(a)
    /\ UNCHANGED <<SERVICE_DAYS, store, redis, DEMO_MODE, weekend, now, response, threads>>

NextMult ==
    \/ \E rating \in 1..3 : RateTray(rating)
    \/ \E entry \in EntryChoices : AnswerQuestions(entry)

SpecMult == InitMult /\ [][NextMult]_vars

\* the breakdown's combined_delta entry
combined_delta(res) == res.adjustments[Len(res.adjustments)][2]

InUnitRange(multiplier) == FLe(FDec(8, 10), multiplier) /\ FLe(multiplier, FDec(118, 100))
InDeltaRange(delta) == FLe(FDec(-2, 10), delta) /\ FLe(delta, FDec(18, 100))

\* C9 as stated: the multiplier is within [0.8, 1.18] and is 1 + the
\* breakdown's combined delta, which is within [-0.2, 0.18].
C9_OnePlusCombinedDelta ==
    /\ InUnitRange(result.multiplier)
    /\ InDeltaRange(combined_delta(result))
    /\ FEq(result.multiplier, FAdd(FInt(1), combined_delta(result)))

\* C9, amended: the multiplier is within [0.8, 1.18], the breakdown's
\* combined delta is within [-0.2, 0.18], and the multiplier is within
\* 0.0001 of 1 + the combined delta (the breakdown rounds the clamped delta
\* to 4 decimals, the multiplier adds the unrounded one).
C9_MultiplierWithinBounds ==
    /\ InUnitRange(result.multiplier)
    /\ InDeltaRange(combined_delta(result))
    /\ FLe(FSub(result.multiplier, FAdd(FInt(1), combined_delta(result))), FDec(1, 10000))
    /\ FLe(FDec(-1, 10000), FSub(result.multiplier, FAdd(FInt(1), combined_delta(result))))

\* structured feedback has driven the multiplier to its ceiling
C9_ClampedAtCeiling ==
    /\ args.entries # <<>>
    /\ FEq(result.multiplier, FDec(118, 100))

\* ------------------------------------------------------------------------
\* Sessions backed by an EventStore that may become unreachable
\* ------------------------------------------------------------------------
MaxStored == 2

StoredResponses == << <<"wait_time", "too_long">> >>

InitStore ==
    /\ SERVICE_DAYS = << >>
    /\ store = [k \in Sites |-> EmptyStore]
    /\ redis = "up"
    /\ DEMO_MODE \in BOOLEAN
    /\ weekend = FALSE
    /\ now = ClockStart
    /\ response = NoResponse
    /\ threads = << >>
    /\ args = << >>
    /\ result = << >>

\* room for one more entry in the lists a feedback request appends to
RoomFor(site_id, prefix, bound) ==
    /\ Len(Session(site_id)[IF prefix = "scores" THEN "feedback_scores"
                            ELSE IF prefix = "reactions" THEN "reaction_stream"
                            ELSE "detailed_feedback"]) < bound
    /\ Len(store[site_id][prefix]) < MaxStored

NextStore ==
    \/ \E site_id \in ReqSites : recomputeState(site_id)
    \/ \E site_id \in ReqSites :
          /\ RoomFor(site_id, "scores", MaxScores)
          /\ RoomFor(site_id, "reactions", MaxStored)
          /\ submitQuickFeedback(site_id, 3)
    \/ \E site_id \in ReqSites :
          /\ RoomFor(site_id, "detailed_feedback", MaxStored)
          /\ RoomFor(site_id, "reactions", MaxStored)
          /\ submitDetailedFeedback(site_id, StoredResponses)
    \/ \E site_id \in ReqSites :
          /\ site_id \in DOMAIN SERVICE_DAYS
          /\ SERVICE_DAYS[site_id].last_decision # <<>>
          /\ markDecisionDone(site_id, identity_of(SERVICE_DAYS[site_id].last_decision[1]))
    \/ \E site_id \in ReqSites : resetSession(site_id)
    \/ RedisFlip

SpecStore == InitStore /\ [][NextStore]_vars

\* the newest entries of a list of the store, <<>> when it cannot be read
Stored(site_id, prefix, limit) ==
    IF redis = "up" THEN LastN(store[site_id][prefix], limit) ELSE <<>>

\* a history after a read that prefers a non-empty list of the store
Preferring(stored, history) == IF stored # <<>> THEN stored ELSE history

SameAdvice(a, b) ==
    /\ a.predicted_diners_next_wave = b.predicted_diners_next_wave
    /\ a.suggested_grams = b.suggested_grams
    /\ a.pan_fill_percent = b.pan_fill_percent
    /\ a.signal_level = b.signal_level

\* C7 (as stated): a recomputeState call leaves diners-so-far, pan fill and
\* the three histories of the session unchanged, and a call that directly
\* follows another returns the same predicted diners, suggested grams, pan
\* fill and urgency tier
C7_RecomputeIsPure ==
    [][\A site_id \in ReqSites :
          (response'.op = "recomputeState" /\ response'.site_id = site_id) =>
              /\ SERVICE_DAYS'[site_id].diners_so_far = Session(site_id).diners_so_far
              /\ SERVICE_DAYS'[site_id].pan_fill_percent = Session(site_id).pan_fill_percent
              /\ SERVICE_DAYS'[site_id].feedback_scores = Session(site_id).feedback_scores
              /\ SERVICE_DAYS'[site_id].detailed_feedback = Session(site_id).detailed_feedback
              /\ SERVICE_DAYS'[site_id].reaction_stream = Session(site_id).reaction_stream
              /\ (response.op = "recomputeState" /\ response.site_id = site_id)
                    => SameAdvice(response.state, response'.state)]_vars

\* C7 (amended): a recomputeState call leaves diners-so-far unchanged; it
\* leaves pan fill unchanged except that in demo mode a pan at 75 % or more
\* loses 20 points, down to 45 % at the least; it leaves each history
\* unchanged except that a non-empty list read from the store replaces it;
\* and a call that directly follows another returns the same advice unless
\* the earlier call returned, in demo mode, a pan at 75 % or more
C7_RecomputeFrame ==
    [][\A site_id \in ReqSites :
          (response'.op = "recomputeState" /\ response'.site_id = site_id) =>
              /\ SERVICE_DAYS'[site_id].diners_so_far = Session(site_id).diners_so_far
              /\ SERVICE_DAYS'[site_id].pan_fill_percent =
                    IF DEMO_MODE /\ Session(site_id).pan_fill_percent >= 75
                    THEN IMax(45, Session(site_id).pan_fill_percent - 20)
                    ELSE Session(site_id).pan_fill_percent
              /\ SERVICE_DAYS'[site_id].feedback_scores =
                    Preferring(Stored(site_id, "scores", FEEDBACK_SCORE_HISTORY_LIMIT),
                               Session(site_id).feedback_scores)
              /\ SERVICE_DAYS'[site_id].detailed_feedback =
                    Preferring(Stored(site_id, "detailed_feedback", DETAILED_FEEDBACK_HISTORY_LIMIT),
                               Session(site_id).detailed_feedback)
              /\ SERVICE_DAYS'[site_id].reaction_stream =
                    Preferring(Stored(site_id, "reactions", MAX_REACTIONS_STORED),
                               Session(site_id).reaction_stream)
              /\ (/\ response.op = "recomputeState"
                  /\ response.site_id = site_id
                  /\ ~(DEMO_MODE /\ response.state.pan_fill_percent >= 75))
                    => SameAdvice(response.state, response'.state)]_vars

\* a recomputation in demo mode has lowered the pan below 75 % and the
\* session's ratings are the store's
C7_LoweredAndReloaded ==
    /\ response.op = "recomputeState"
    /\ DEMO_MODE
    /\ DEFAULT_SITE_ID \in DOMAIN SERVICE_DAYS
    /\ response.state.pan_fill_percent \in 45 .. 74
    /\ response.state.pan_fill_percent # Preset(DEFAULT_SITE_ID).pan_fill_percent
    /\ store[DEFAULT_SITE_ID].scores # <<>>
    /\ SERVICE_DAYS[DEFAULT_SITE_ID].feedback_scores = store[DEFAULT_SITE_ID].scores
    /\ SERVICE_DAYS[DEFAULT_SITE_ID].reaction_stream # <<>>

\* C8: a session that does not exist (none was created yet, or resetSession
\* removed it) is, at its next access, the session of the configured
\* defaults: preset diners and pan, preset ratings, no structured feedback,
\* no reactions, no decision card
C8_ResetRestoresDefaults ==
    \A site_id \in ReqSites :
        site_id \notin DOMAIN SERVICE_DAYS => Session(site_id) = NewServiceDay(site_id)

\* ------------------------------------------------------------------------
\* Requests served by concurrent threads of the server.  No handler takes a
\* lock, so a thread can be preempted between its read of a field of the
\* session and its write of the value computed from that read.
\* ------------------------------------------------------------------------
MaxPairs == 1

\* a request in flight: pc is "read" before the handler has read the field,
\* "write" once it holds the value read in seen, "done" after its response
Thread(site_id, op, delta) ==
    [site_id |-> site_id, op |-> op, delta |-> delta, payload |-> EmptyPayload,
     pc |-> "read", seen |-> 0, grams |-> 0, live |-> FALSE, status |-> 0]

DoneThread(site_id, payload) ==
    [Thread(site_id, "markDecisionDone", 0) EXCEPT !.payload = payload]

\* the pairs of requests that overlap
Pairs(site_id, payload) ==
    { <<Thread(site_id, "incrementDiners", 5), Thread(site_id, "incrementDiners", 3)>>,
      <<DoneThread(site_id, payload), Thread(site_id, "recomputeState", 0)>>,
      <<DoneThread(site_id, payload), DoneThread(site_id, payload)>> }

InitConc ==
    /\ SERVICE_DAYS = << >>
    /\ store = [k \in Sites |-> EmptyStore]
    /\ redis = "none"
    /\ DEMO_MODE = TRUE
    /\ weekend = FALSE
    /\ now = ClockStart + MaxTicks * TickMinutes
    /\ response = NoResponse
    /\ threads = << >>
    /\ args = [before |-> NewServiceDay(DEFAULT_SITE_ID), pairs |-> 0]
    /\ result = << >>

\* the identity a client holds: the active card's, none before the first card
ActivePayload(site_id) ==
    IF site_id \in DOMAIN SERVICE_DAYS /\ SERVICE_DAYS[site_id].last_decision # <<>>
    THEN identity_of(SERVICE_DAYS[site_id].last_decision[1])
    ELSE EmptyPayload

\* two requests arrive together at an existing session
StartPair(site_id, pair) ==
    /\ threads = << >>
    /\ site_id \in DOMAIN SERVICE_DAYS
    /\ args.pairs < MaxPairs
    /\ threads' = pair
    /\ args' = [before |-> SERVICE_DAYS[site_id], pairs |-> args.pairs + 1]
    /\ response' = NoResponse
    /\ UNCHANGED <<SERVICE_DAYS, store, redis, DEMO_MODE, weekend, now, result>>

\* api_increment_diner evaluates service_day.diners_so_far + delta
ReadDiners(i) ==
    /\ threads[i].op = "incrementDiners"
    /\ threads[i].pc = "read"
    /\ threads' = [threads EXCEPT ![i].seen = SERVICE_DAYS[threads[i].site_id].diners_so_far,
                                  ![i].pc = "write"]
    /\ UNCHANGED <<SERVICE_DAYS, store, redis, DEMO_MODE, weekend, now, response, args, result>>

\* api_increment_diner assigns service_day.diners_so_far and responds
WriteDiners(i) ==
    /\ threads[i].op = "incrementDiners"
    /\ threads[i].pc = "write"
    /\ SERVICE_DAYS' = [SERVICE_DAYS EXCEPT ![threads[i].site_id].diners_so_far =
                            IMax(threads[i].seen + threads[i].delta, 0)]
    /\ threads' = [threads EXCEPT ![i].pc = "done", ![i].status = 200]
    /\ UNCHANGED <<store, redis, DEMO_MODE, weekend, now, response, args, result>>

\* api_done finds the card and adjust_pan_after_refill reads the pan
MatchAndReadPan(i) ==
    /\ threads[i].op = "markDecisionDone"
    /\ threads[i].pc = "read"
    /\ \E service_day \in {SERVICE_DAYS[threads[i].site_id]} :
          threads' = IF get_matching_decision(service_day, threads[i].payload)
                     THEN [threads EXCEPT ![i].seen = service_day.pan_fill_percent,
                                          ![i].grams = service_day.last_decision[1].suggested_grams,
                                          ![i].live = TRUE,
                                          ![i].pc = "write"]
                     ELSE [threads EXCEPT ![i].pc = "done", ![i].status = 409]
    /\ UNCHANGED <<SERVICE_DAYS, store, redis, DEMO_MODE, weekend, now, response, args, result>>

\* adjust_pan_after_refill assigns the pan; api_done marks the card it holds
\* (the session's card unless a recomputation has replaced it) and responds
WritePan(i) ==
    /\ threads[i].op = "markDecisionDone"
    /\ threads[i].pc = "write"
    /\ \E site \in {get_site_config(threads[i].site_id)} :
       \E pan \in {adjust_pan_after_refill(threads[i].seen, threads[i].grams,
                                           site.portion_grams, site.pan_capacity_portions)} :
          SERVICE_DAYS' = IF threads[i].live
                          THEN [SERVICE_DAYS EXCEPT
                                   ![threads[i].site_id].pan_fill_percent = pan,
                                   ![threads[i].site_id].last_decision[1].status = "done"]
                          ELSE [SERVICE_DAYS EXCEPT
                                   ![threads[i].site_id].pan_fill_percent = pan]
    /\ threads' = [threads EXCEPT ![i].pc = "done", ![i].status = 200]
    /\ UNCHANGED <<store, redis, DEMO_MODE, weekend, now, response, args, result>>

\* compute_current_state reads the pan in its demo block
ReadPan(i) ==
    /\ threads[i].op = "recomputeState"
    /\ threads[i].pc = "read"
    /\ threads' = [threads EXCEPT ![i].seen = SERVICE_DAYS[threads[i].site_id].pan_fill_percent,
                                  ![i].pc = "write"]
    /\ UNCHANGED <<SERVICE_DAYS, store, redis, DEMO_MODE, weekend, now, response, args, result>>

\* compute_current_state assigns the lowered pan, builds the card and
\* installs it as a new object: a card held by another thread is no longer
\* the session's
WriteState(i) ==
    /\ threads[i].op = "recomputeState"
    /\ threads[i].pc = "write"
    /\ \E out \in {compute_state_reading(Env, SERVICE_DAYS[threads[i].site_id],
                                         threads[i].site_id, threads[i].seen)} :
          SERVICE_DAYS' = [SERVICE_DAYS EXCEPT ![threads[i].site_id] = out.service_day]
    /\ threads' = [j \in DOMAIN threads |->
                      IF j = i THEN [threads[j] EXCEPT !.pc = "done", !.status = 200]
                      ELSE [threads[j] EXCEPT !.live = FALSE]]
    /\ UNCHANGED <<store, redis, DEMO_MODE, weekend, now, response, args, result>>

\* both responses have been sent
Finish ==
    /\ threads # << >>
    /\ \A i \in DOMAIN threads : threads[i].pc = "done"
    /\ threads' = << >>
    /\ UNCHANGED <<SERVICE_DAYS, store, redis, DEMO_MODE, weekend, now, response, args, result>>

NextConc ==
    \/ /\ threads = << >>
       /\ \E site_id \in ReqSites : recomputeState(site_id)
    \/ /\ threads = << >>
       /\ \E site_id \in ReqSites, delta \in Deltas :
             /\ Session(site_id).diners_so_far + delta <= MaxDiners
             /\ incrementDiners(site_id, delta)
    \/ /\ threads = << >>
       /\ \E site_id \in ReqSites :
             /\ site_id \in DOMAIN SERVICE_DAYS
             /\ SERVICE_DAYS[site_id].last_decision # <<>>
             /\ markDecisionDone(site_id, identity_of(SERVICE_DAYS[site_id].last_decision[1]))
    \/ \E site_id \in ReqSites :
          \E pair \in Pairs(site_id, ActivePayload(site_id)) : StartPair(site_id, pair)
    \/ \E i \in DOMAIN threads : ReadDiners(i)
    \/ \E i \in DOMAIN threads : WriteDiners(i)
    \/ \E i \in DOMAIN threads : MatchAndReadPan(i)
    \/ \E i \in DOMAIN threads : WritePan(i)
    \/ \E i \in DOMAIN threads : ReadPan(i)
    \/ \E i \in DOMAIN threads : WriteState(i)
    \/ Finish

SpecConc == InitConc /\ [][NextConc]_vars

BothResponded ==
    /\ threads # << >>
    /\ \A i \in DOMAIN threads : threads[i].pc = "done"

\* C4: once two overlapping incrementDiners requests have both responded,
\* diners-so-far is the value before them plus the sum of their deltas
\* (+5 and +3: plus 8)
C4_NoLostIncrement ==
    (BothResponded /\ \A i \in DOMAIN threads : threads[i].op = "incrementDiners")
        => SERVICE_DAYS[threads[1].site_id].diners_so_far =
              args.before.diners_so_far + threads[1].delta + threads[2].delta

\* a request run alone on a session
Alone(thread, service_day) ==
    IF thread.op = "recomputeState"
    THEN compute_current_state(Env, service_day, thread.site_id).service_day
    ELSE IF get_matching_decision(service_day, thread.payload)
    THEN [service_day EXCEPT
             !.pan_fill_percent =
                 adjust_pan_after_refill(service_day.pan_fill_percent,
                                         service_day.last_decision[1].suggested_grams,
                                         get_site_config(thread.site_id).portion_grams,
                                         get_site_config(thread.site_id).pan_capacity_portions),
             !.last_decision[1].status = "done"]
    ELSE service_day

\* C5: once a successful markDecisionDone and an overlapping recomputeState
\* or markDecisionDone have both responded, the pan fill percent is the one
\* that running the two requests one after the other, in one of the two
\* orders, leaves
C5_PanUpdatesSerialized ==
    (/\ BothResponded
     /\ threads[1].op = "markDecisionDone"
     /\ threads[1].status = 200)
        => SERVICE_DAYS[threads[1].site_id].pan_fill_percent \in
              { Alone(threads[2], Alone(threads[1], args.before)).pan_fill_percent,
                Alone(threads[1], Alone(threads[2], args.before)).pan_fill_percent }

\* ------------------------------------------------------------------------
\* The suggestion against the exact shortfall
\* ------------------------------------------------------------------------
\* 100 times the exact value of max(predicted - fill/100 * capacity, 0) * portion_grams
ShortfallGramsTimes100(a) ==
    IMax(100 * a.predicted - a.fill * a.capacity, 0) * a.portion_grams

\* q is an integer nearest to n/100
NearestTo(q, n) == 100 * q - n \in -50 .. 50

\* C11: compute_suggested_grams returns the exact shortfall in grams rounded
\* to a nearest integer (not truncated), clamped to 0..4000
C11_RoundsToNearest ==
    \E q \in {ShortfallGramsTimes100(args) \div 100, ShortfallGramsTimes100(args) \div 100 + 1} :
        /\ NearestTo(q, ShortfallGramsTimes100(args))
        /\ result = IMax(0, IMin(q, MaxSuggestedGrams))

\* ------------------------------------------------------------------------
\* The urgency tier of a snapshot
\* ------------------------------------------------------------------------
\* C12: the tier of every state snapshot follows, in priority order, from the
\* snapshot's own suggested grams and pan fill: critical iff grams >= 1800 or
\* pan <= 35; otherwise warning iff grams >= 600 or pan <= 55; otherwise ready
C12_TierFromSnapshot ==
    response.op = "recomputeState" =>
        LET grams    == response.state.suggested_grams
            pan      == response.state.pan_fill_percent
            tier     == response.state.signal_level
            critical == grams >= 1800 \/ pan <= 35
            warning  == ~critical /\ (grams >= 600 \/ pan <= 55)
        IN  /\ tier \in {"critical", "warning", "ready"}
            /\ (tier = "critical") <=> critical
            /\ (tier = "warning") <=> warning
            /\ (tier = "ready") <=> (~critical /\ ~warning)

\* a snapshot with nothing to prepare and the pan at 80 %: ready
C12_ReadySnapshot ==
    /\ response.op = "recomputeState"
    /\ response.state.suggested_grams = 0
    /\ response.state.pan_fill_percent = 80
    /\ response.state.signal_level = "ready"

\* ------------------------------------------------------------------------
\* Request bodies as the client sends them
\* ------------------------------------------------------------------------
\* a JSON value of a request body: absent, an integer n, a number n/10 with
\* a fraction, or a string
Absent == [kind |-> "missing", n |-> 0, text |-> ""]
JsonInt(n) == [kind |-> "int", n |-> n, text |-> ""]
JsonTenths(n) == [kind |-> "float", n |-> n, text |-> ""]
JsonText(text) == [kind |-> "text", n |-> 0, text |-> text]

\* int(data.get(key, default)): [ok, value]; ok is FALSE when int() raises
\* ValueError.  int() of a float drops the fraction; int() of a string
\* parses a decimal integer.
python_int(raw, default) ==
    IF raw.kind = "missing" THEN [ok |-> TRUE, value |-> default]
    ELSE IF raw.kind = "int" THEN [ok |-> TRUE, value |-> raw.n]
    ELSE IF raw.kind = "float"
    THEN [ok |-> TRUE, value |-> IF raw.n >= 0 THEN raw.n \div 10 ELSE -((-raw.n) \div 10)]
    ELSE IF raw.text \in DOMAIN IntegerTexts
    THEN [ok |-> TRUE, value |-> IntegerTexts[raw.text]]
    ELSE [ok |-> FALSE, value |-> 0]

\* POST /api/feedback with the body's rating as sent; an exception of int()
\* is answered 500 by the framework, after the session has been created
api_feedback(site_id, raw) ==
    \E env \in {Env} :
    \E days \in {get_or_create_service_day(env, SERVICE_DAYS, site_id)} :
    \E rating \in {python_int(raw, 0)} :
        IF rating.ok /\ rating.value \in {1, 2, 3}
        THEN \E ss \in {record_quick_feedback(env, days[site_id], site_id, rating.value)} :
                 /\ SERVICE_DAYS' = [days EXCEPT ![site_id] = ss.service_day]
                 /\ store' = ss.store
                 /\ response' = [op |-> "api_feedback", site_id |-> site_id,
                                 status |-> 200, raw |-> raw]
                 /\ UNCHANGED <<redis, DEMO_MODE, weekend, now, threads, args, result>>
        ELSE /\ SERVICE_DAYS' = days
             /\ response' = [op |-> "api_feedback", site_id |-> site_id,
                             status |-> IF rating.ok THEN 400 ELSE 500, raw |-> raw]
             /\ UNCHANGED <<store, redis, DEMO_MODE, weekend, now, threads, args, result>>

\* the "responses" member of a body: absent, a list, a string or a map,
\* items being the map's (key, answer) pairs or the list's elements
NoResponses == [kind |-> "missing", items |-> <<>>]
ResponseMap(items) == [kind |-> "map", items |-> items]
ResponseList(items) == [kind |-> "list", items |-> items]

\* POST /api/feedback_extended with the body's responses as sent
api_feedback_extended(site_id, raw) ==
    \E env \in {Env} :
    \E days \in {get_or_create_service_day(env, SERVICE_DAYS, site_id)} :
        IF raw.kind # "map" \/ raw.items = <<>>
        THEN /\ SERVICE_DAYS' = days
             /\ response' = [op |-> "api_feedback_extended", site_id |-> site_id,
                             status |-> 400, raw |-> raw]
             /\ UNCHANGED <<store, redis, DEMO_MODE, weekend, now, threads, args, result>>
        ELSE \E ss \in {record_detailed_feedback(env, days[site_id], site_id, raw.items)} :
                 /\ SERVICE_DAYS' = [days EXCEPT ![site_id] = ss.service_day]
                 /\ store' = ss.store
                 /\ response' = [op |-> "api_feedback_extended", site_id |-> site_id,
                                 status |-> 200, raw |-> raw,
                                 total |-> Len(ss.service_day.detailed_feedback)]
                 /\ UNCHANGED <<redis, DEMO_MODE, weekend, now, threads, args, result>>

RawRatings ==
    {Absent, JsonInt(-1), JsonInt(0), JsonInt(1), JsonInt(2), JsonInt(3), JsonInt(4),
     JsonTenths(29), JsonText("abc"), JsonText("2")}

RawResponses ==
    {NoResponses, ResponseMap(<<>>), ResponseList(<<"quick">>),
     ResponseMap(<< <<"wait_time", "too_long">> >>),
     ResponseMap(<< <<"smell", "4">>, <<"overall_mood", "content">> >>)}

InputDeltas == {-200, 200}
MaxInputReactions == 3
MaxInputDetailed == 2

InitInput ==
    /\ SERVICE_DAYS = << >>
    /\ store = [k \in Sites |-> EmptyStore]
    /\ redis = "none"
    /\ DEMO_MODE = TRUE
    /\ weekend = FALSE
    /\ now = ClockStart
    /\ response = NoResponse
    /\ threads = << >>
    /\ args = << >>
    /\ result = << >>

NextInput ==
    \/ \E site_id \in ReqSites, raw \in RawRatings :
          /\ Len(Session(site_id).feedback_scores) < MaxScores
          /\ Len(Session(site_id).reaction_stream) < MaxInputReactions
          /\ api_feedback(site_id, raw)
    \/ \E site_id \in ReqSites, raw \in RawResponses :
          /\ Len(Session(site_id).detailed_feedback) < MaxInputDetailed
          /\ Len(Session(site_id).reaction_stream) + Len(raw.items) <= MaxInputReactions
          /\ api_feedback_extended(site_id, raw)
    \/ \E site_id \in ReqSites, delta \in InputDeltas :
          /\ Session(site_id).diners_so_far + delta <= MaxDiners
          /\ incrementDiners(site_id, delta)

SpecInput == InitInput /\ [][NextInput]_vars

\* C13: a rating request is accepted only when the rating supplied is one of
\* the integers 1, 2, 3; for every other supplied value it is answered
\* InvalidInput (400) and the rating and reaction histories keep their value
C13_OnlyOneTwoThree ==
    [][\A site_id \in ReqSites :
          (response'.op = "api_feedback" /\ response'.site_id = site_id) =>
              IF response'.raw \in {JsonInt(1), JsonInt(2), JsonInt(3)}
              THEN response'.status = 200
              ELSE /\ response'.status = 400
                   /\ SERVICE_DAYS'[site_id].feedback_scores = Session(site_id).feedback_scores
                   /\ SERVICE_DAYS'[site_id].reaction_stream = Session(site_id).reaction_stream]_vars

\* q is p followed by n more entries
Extends(q, p, n) == Len(q) = Len(p) + n /\ SubSeq(q, 1, Len(p)) = p

\* C14: a structured submission whose responses are missing, not a map or an
\* empty map is answered InvalidInput (400) and keeps the structured-feedback
\* and reaction histories; one with a non-empty map is accepted and appends
\* one structured entry, stamped with the clock and holding the map, and one
\* reaction per response key, in the map's order
C14_DetailedValidatedAndAppended ==
    [][\A site_id \in ReqSites :
          (response'.op = "api_feedback_extended" /\ response'.site_id = site_id) =>
              LET raw    == response'.raw
                  before == Session(site_id)
                  after  == SERVICE_DAYS'[site_id]
              IN  IF raw.kind # "map" \/ raw.items = <<>>
                  THEN /\ response'.status = 400
                       /\ after.detailed_feedback = before.detailed_feedback
                       /\ after.reaction_stream = before.reaction_stream
                  ELSE /\ response'.status = 200
                       /\ Extends(after.detailed_feedback, before.detailed_feedback, 1)
                       /\ after.detailed_feedback[Len(after.detailed_feedback)].timestamp = now
                       /\ after.detailed_feedback[Len(after.detailed_feedback)].responses = raw.items
                       /\ Extends(after.reaction_stream, before.reaction_stream, Len(raw.items))
                       /\ \A i \in 1 .. Len(raw.items) :
                             LET reaction == after.reaction_stream[Len(before.reaction_stream) + i]
                             IN  /\ reaction.response_key = raw.items[i][1]
                                 /\ reaction.value = raw.items[i][2]
                                 /\ reaction.timestamp = now]_vars

\* a second structured entry, with two answers, has been accepted
C14_TwoAnswersAppended ==
    /\ response.op = "api_feedback_extended"
    /\ response.status = 200
    /\ Len(response.raw.items) = 2
    /\ Len(SERVICE_DAYS[DEFAULT_SITE_ID].detailed_feedback) = 2
    /\ Len(SERVICE_DAYS[DEFAULT_SITE_ID].reaction_stream) = 3

\* C16: while a session exists, no request lowers its diners-so-far, and an
\* incrementDiners request returns a total that is at least the total before
C16_DinersMonotonic ==
    [][\A site_id \in ReqSites :
          /\ (site_id \in DOMAIN SERVICE_DAYS /\ site_id \in DOMAIN SERVICE_DAYS')
                => SERVICE_DAYS'[site_id].diners_so_far >= SERVICE_DAYS[site_id].diners_so_far
          /\ (response'.op = "incrementDiners" /\ response'.site_id = site_id)
                => response'.diners_so_far >= Session(site_id).diners_so_far]_vars

\* ------------------------------------------------------------------------
\* The capped histories
\* ------------------------------------------------------------------------
\* the newest entry of a history
Newest(history) == history[Len(history)]

\* C15: the rating, structured-feedback and reaction histories of a session
\* hold at most 100, 400 and 75 entries, and every accepted submission leaves
\* each history it appends to as the most recent cap-many entries in
\* submission order: the history before, then the new entries, less the
\* oldest beyond the cap
C15_HistoriesKeepNewest ==
    /\ [](\A site_id \in DOMAIN SERVICE_DAYS :
             /\ Len(SERVICE_DAYS[site_id].feedback_scores) <= FEEDBACK_SCORE_HISTORY_LIMIT
             /\ Len(SERVICE_DAYS[site_id].detailed_feedback) <= DETAILED_FEEDBACK_HISTORY_LIMIT
             /\ Len(SERVICE_DAYS[site_id].reaction_stream) <= MAX_REACTIONS_STORED)
    /\ [][\A site_id \in ReqSites :
             LET before == Session(site_id)
                 after  == SERVICE_DAYS'[site_id]
             IN  /\ (/\ response'.op = "submitQuickFeedback"
                     /\ response'.site_id = site_id
                     /\ response'.status = 200)
                       => /\ after.feedback_scores =
                                LastN(Append(before.feedback_scores, response'.rating),
                                      FEEDBACK_SCORE_HISTORY_LIMIT)
                          /\ Len(after.reaction_stream) =
                                IMin(Len(before.reaction_stream) + 1, MAX_REACTIONS_STORED)
                          /\ Newest(after.reaction_stream).value = RatingText[response'.rating]
                 /\ (/\ response'.op = "submitDetailedFeedback"
                     /\ response'.site_id = site_id
                     /\ response'.status = 200)
                       => /\ Len(after.detailed_feedback) =
                                IMin(Len(before.detailed_feedback) + 1,
                                     DETAILED_FEEDBACK_HISTORY_LIMIT)
                          /\ Newest(after.detailed_feedback).responses = response'.responses
                          /\ \A i \in 1 .. Len(after.detailed_feedback) - 1 :
                                after.detailed_feedback[i] =
                                   before.detailed_feedback[i + Len(before.detailed_feedback) + 1
                                                              - Len(after.detailed_feedback)]]_vars

\* ------------------------------------------------------------------------
\* The pan level
\* ------------------------------------------------------------------------
\* C17: in every reachable state the pan fill of every session is a
\* percentage between 0 and 100
C17_PanIsPercentage ==
    \A site_id \in DOMAIN SERVICE_DAYS :
        SERVICE_DAYS[site_id].pan_fill_percent \in 0 .. 100

\* a refill has been recorded and has raised the pan above the level the
\* day started with
C17_PanRefilled ==
    /\ response.op = "markDecisionDone"
    /\ response.status = 200
    /\ SERVICE_DAYS[response.site_id].pan_fill_percent = response.pan_fill_percent
    /\ response.pan_fill_percent > 90

\* ------------------------------------------------------------------------
\* EventStore outages (specification SpecStore)
\* ------------------------------------------------------------------------
\* C18: while the EventStore is unreachable a rating or a structured
\* submission is still answered 200 and appended to the session's in-memory
\* histories, and a recomputation whose reads of the store fail or come back
\* empty returns the feedback multiplier of the in-memory ratings and
\* structured entries, which it leaves as they are
C18_OutageIsInvisible ==
    [][\A site_id \in ReqSites :
          LET before == Session(site_id)
              after  == SERVICE_DAYS'[site_id]
          IN  /\ (/\ redis = "down"
                  /\ response'.op = "submitQuickFeedback"
                  /\ response'.site_id = site_id)
                    => /\ response'.status = 200
                       /\ Extends(after.feedback_scores, before.feedback_scores, 1)
                       /\ Newest(after.feedback_scores) = response'.rating
                       /\ Extends(after.reaction_stream, before.reaction_stream, 1)
                       /\ after.detailed_feedback = before.detailed_feedback
              /\ (/\ redis = "down"
                  /\ response'.op = "submitDetailedFeedback"
                  /\ response'.site_id = site_id)
                    => /\ response'.status = 200
                       /\ Extends(after.detailed_feedback, before.detailed_feedback, 1)
                       /\ Newest(after.detailed_feedback).responses = response'.responses
                       /\ Extends(after.reaction_stream, before.reaction_stream,
                                  Len(response'.responses))
                       /\ after.feedback_scores = before.feedback_scores
              /\ (/\ response'.op = "recomputeState"
                  /\ response'.site_id = site_id
                  /\ Stored(site_id, "scores", FEEDBACK_SCORE_HISTORY_LIMIT) = <<>>
                  /\ Stored(site_id, "detailed_feedback", DETAILED_FEEDBACK_HISTORY_LIMIT) = <<>>)
                    => /\ response'.status = 200
                       /\ response'.state.feedback_multiplier =
                             FRound3(compute_feedback_demand_multiplier(
                                         before.feedback_scores, before.detailed_feedback,
                                         now).multiplier)
                       /\ after.feedback_scores = before.feedback_scores
                       /\ after.detailed_feedback = before.detailed_feedback]_vars

\* a recomputation during an outage, for a session holding a rating and a
\* structured entry that the store has not received
C18_RecomputedDuringOutage ==
    /\ redis = "down"
    /\ response.op = "recomputeState"
    /\ store[DEFAULT_SITE_ID].scores = <<>>
    /\ store[DEFAULT_SITE_ID].detailed_feedback = <<>>
    /\ Len(SERVICE_DAYS[DEFAULT_SITE_ID].feedback_scores)
          > Len(Preset(DEFAULT_SITE_ID).feedback_scores)
    /\ SERVICE_DAYS[DEFAULT_SITE_ID].detailed_feedback # <<>>
    /\ response.state.feedback_multiplier # FInt(1)

\* ------------------------------------------------------------------------
\* The satisfaction estimate of a list of ratings
\* ------------------------------------------------------------------------
MaxSatRatings == 5

InitSat ==
    /\ Quiet
    /\ args = <<>>
    /\ result = compute_satisfaction_percent(<<>>)

\* one more rating in the list the estimate is computed for
RateMeal(rating) ==
    /\ Len(args) < MaxSatRatings
    /\ \E scores \in {Append(args, rating)} :
          args' = scores /\ result' = compute_satisfaction_percent(scores)
    /\ UNCHANGED <<SERVICE_DAYS, store, redis, DEMO_MODE, weekend, now, response, threads>>

NextSat == \E rating \in 1 .. 3 : RateMeal(rating)

SpecSat == InitSat /\ [][NextSat]_vars

\* 33 + (avg - 1) * 33.5 of the ratings, times twice their number
SatisfactionTimes2N(scores) == 66 * Len(scores) + 67 * (SumSeq(scores) - Len(scores))

\* C19 (as stated): the estimate is null for no ratings, and otherwise
\* 33 + (avg - 1) * 33.5 rounded to a nearest integer, within 33..100, 33
\* for [1,1,1] and 100 for [3,3,3]
C19_RoundedToInteger ==
    IF args = <<>> THEN result = -1
    ELSE /\ result \in 33 .. 100
         /\ 2 * Len(args) * result - SatisfactionTimes2N(args) \in -Len(args) .. Len(args)
         /\ args = <<1, 1, 1>> => result = 33
         /\ args = <<3, 3, 3>> => result = 100

\* C19 (amended): the estimate is null for no ratings, and otherwise
\* 33 + (avg - 1) * 33.5 with its fraction dropped, within 33..100, 33 for
\* [1,1,1] and 100 for [3,3,3]
C19_TruncatedToInteger ==
    IF args = <<>> THEN result = -1
    ELSE /\ result \in 33 .. 100
         /\ 2 * Len(args) * result <= SatisfactionTimes2N(args)
         /\ SatisfactionTimes2N(args) < 2 * Len(args) * (result + 1)
         /\ args = <<1, 1, 1>> => result = 33
         /\ args = <<3, 3, 3>> => result = 100

\* ratings 1 and 2 give 49 for 49.75
C19_FractionDropped ==
    /\ args = <<1, 2>>
    /\ result = 49

\* ------------------------------------------------------------------------
\* Skipping a decision
\* ------------------------------------------------------------------------
\* C20: a markDecisionSkipped request that carries the identity of the
\* active card is answered 200 and sets the card's status to skipped; the
\* session is otherwise as before (pan fill, diners-so-far, the histories
\* and every other field of the card), and so is the store
C20_SkipOnlySetsStatus ==
    [][\A site_id \in ReqSites :
          (/\ response'.op = "markDecisionSkipped"
           /\ response'.site_id = site_id
           /\ IdentityEquals(Session(site_id), response'.payload))
             => /\ response'.status = 200
                /\ response'.card_status = "skipped"
                /\ SERVICE_DAYS' = [SERVICE_DAYS EXCEPT
                                       ![site_id].last_decision[1].status = "skipped"]
                /\ store' = store]_vars

\* a pending card that asks for a refill has been skipped, and the pan is
\* where the card saw it
C20_RefillSkipped ==
    /\ response.op = "markDecisionSkipped"
    /\ response.status = 200
    /\ IdentityEquals(SERVICE_DAYS[response.site_id], response.payload)
    /\ SERVICE_DAYS[response.site_id].last_decision[1].status = "skipped"
    /\ SERVICE_DAYS[response.site_id].last_decision[1].suggested_grams > 0
    /\ SERVICE_DAYS[response.site_id].pan_fill_percent
          = SERVICE_DAYS[response.site_id].last_decision[1].pan_fill_percent
    /\ SERVICE_DAYS[response.site_id].feedback_scores # Preset(response.site_id).feedback_scores

\* ------------------------------------------------------------------------
\* The forecast of the next wave, over its arguments
\* ------------------------------------------------------------------------
WavesBelow == 2
WavesBeyond == 2
DinerStep == 45
MaxForecastDiners == 405

\* feedback multipliers, in thousandths
MultiplierChoices == <<800, 1000, 1180>>

forecast_of(a) ==
    predict_next_wave(a.total_expected_diners, a.diners_so_far, a.wave_index,
                      FDec(MultiplierChoices[a.multiplier], 1000), weekend)

InitForecast ==
    /\ SERVICE_DAYS = << >>
    /\ store = [k \in Sites |-> EmptyStore]
    /\ redis = "none"
    /\ DEMO_MODE = FALSE
    /\ weekend \in BOOLEAN
    /\ now = ClockStart
    /\ response = NoResponse
    /\ threads = << >>
    /\ args = [total_expected_diners |-> Preset(DEFAULT_SITE_ID).total_expected_diners,
               diners_so_far |-> 0, wave_index |-> -WavesBelow, multiplier |-> 1]
    /\ result = forecast_of(args)

MoreDiners ==
    /\ args.diners_so_far + DinerStep <= MaxForecastDiners
    /\ \E a \in {[args EXCEPT !.diners_so_far = @ + DinerStep]} :
          args' = a /\ result' = forecast_of(a)
    /\ UNCHANGED <<SERVICE_DAYS, store, redis, DEMO_MODE, weekend, now, response, threads>>

LaterWave ==
    /\ args.wave_index < Len(EXPECTED_WAVES) - 1 + WavesBeyond
    /\ \E a \in {[args EXCEPT !.wave_index = @ + 1]} :
          args' = a /\ result' = forecast_of(a)
    /\ UNCHANGED <<SERVICE_DAYS, store, redis, DEMO_MODE, weekend, now, response, threads>>

OtherMultiplier ==
    /\ args.multiplier < Len(MultiplierChoices)
    /\ \E a \in {[args EXCEPT !.multiplier = @ + 1]} :
          args' = a /\ result' = forecast_of(a)
    /\ UNCHANGED <<SERVICE_DAYS, store, redis, DEMO_MODE, weekend, now, response, threads>>

NextForecast == MoreDiners \/ LaterWave \/ OtherMultiplier

SpecForecast == InitForecast /\ [][NextForecast]_vars

\* the wave index clamped into the valid range
ClampedWave(wave_index) == IMin(IMax(wave_index, 0), Len(EXPECTED_WAVES) - 1)

\* (0.5 * expectedInWave + 0.5 * remainingExpected / remainingWaves) *
\* multiplier as the fraction <<numerator, denominator>>, for the wave index
\* wave_for_rest in remainingWaves; expectedInWave is the pattern value of
\* the clamped wave, times 0.7 on a weekend
BlendFraction(a, wave_for_rest) ==
    LET expected  == EXPECTED_WAVES[ClampedWave(a.wave_index) + 1] * (IF weekend THEN 7 ELSE 10)
        remaining == IMax(a.total_expected_diners - a.diners_so_far, 0)
        waves     == IMax(Len(EXPECTED_WAVES) - wave_for_rest, 1)
    IN  << (expected * waves + 10 * remaining) * MultiplierChoices[a.multiplier],
           20 * waves * 1000 >>

\* r is the fraction with its fractional part dropped
TruncOf(fraction, r) == r * fraction[2] <= fraction[1] /\ fraction[1] < (r + 1) * fraction[2]

\* C21: predict_next_wave returns trunc((0.5 * expectedInWave + 0.5 *
\* max(totalExpected - dinersSoFar, 0) / max(totalWaves - waveIndex, 1)) *
\* multiplier) for the wave index clamped into the valid range and
\* expectedInWave times 0.7 on weekends; the result is an integer >= 0 and
\* does not grow when dinersSoFar grows
C21_ForecastFormula ==
    /\ [](/\ result \in Nat
          /\ TruncOf(BlendFraction(args, ClampedWave(args.wave_index)), result))
    /\ [][args'.diners_so_far > args.diners_so_far => result' <= result]_vars

\* ------------------------------------------------------------------------
\* The wave schedule, over site profiles
\* ------------------------------------------------------------------------
WaveStep == 5
WindowStep == 10
MaxWaveMinutes == 60
MaxWindowMinutes == 180

\* args is a site profile; result is its wave template
InitWaves ==
    /\ Quiet
    /\ args = [SiteFlavoria EXCEPT !.lunch_window_end = SiteFlavoria.lunch_window_start + WindowStep,
                                   !.wave_duration_minutes = WaveStep]
    /\ result = get_wave_template(args)

LongerWaves ==
    /\ args.wave_duration_minutes + WaveStep <= MaxWaveMinutes
    /\ \E site \in {[args EXCEPT !.wave_duration_minutes = @ + WaveStep]} :
          args' = site /\ result' = get_wave_template(site)
    /\ UNCHANGED <<SERVICE_DAYS, store, redis, DEMO_MODE, weekend, now, response, threads>>

LongerWindow ==
    /\ args.lunch_window_end + WindowStep <= args.lunch_window_start + MaxWindowMinutes
    /\ \E site \in {[args EXCEPT !.lunch_window_end = @ + WindowStep]} :
          args' = site /\ result' = get_wave_template(site)
    /\ UNCHANGED <<SERVICE_DAYS, store, redis, DEMO_MODE, weekend, now, response, threads>>

NextWaves == LongerWaves \/ LongerWindow

SpecWaves == InitWaves /\ [][NextWaves]_vars

\* C22: for a profile with a positive wave duration and a window that starts
\* before it ends, the waves are numbered 0, 1, 2, ..., the first starts at
\* the window start, each starts where the one before ends and lasts the
\* wave duration, none ends after the window end, and their number is
\* min(window length / wave duration, pattern length)
C22_WavesTileWindow ==
    (args.wave_duration_minutes > 0 /\ args.lunch_window_start < args.lunch_window_end) =>
        /\ \A i \in 1 .. Len(result) :
              /\ result[i].index = i - 1
              /\ result[i].start_time =
                    IF i = 1 THEN args.lunch_window_start ELSE result[i - 1].end_time
              /\ result[i].end_time = result[i].start_time + args.wave_duration_minutes
              /\ result[i].end_time <= args.lunch_window_end
        /\ Len(result) = IMin((args.lunch_window_end - args.lunch_window_start)
                                  \div args.wave_duration_minutes,
                              Len(EXPECTED_WAVES))

\* ------------------------------------------------------------------------
\* Station briefs
\* ------------------------------------------------------------------------
\* next_wave = max(int(coverage * 0.18 * feedback_multiplier), 1) for
\* coverage = max(menu.predicted_covers, 1); prep_portions = min(next_wave, coverage)
prep_portions_of(predicted_covers, feedback_multiplier) ==
    IMin(IMax(FTrunc(FMul(FMul(FInt(IMax(predicted_covers, 1)), FDec(18, 100)),
                          feedback_multiplier)),
              1),
         IMax(predicted_covers, 1))

\* the signal by swap status first: critical only for the other statuses
station_signal_status_first(swap_status, prep_portions) ==
    IF swap_status = "suggested" THEN "warning"
    ELSE IF swap_status \in {"approved", "ignored"} THEN "ready"
    ELSE IF prep_portions >= 60 THEN "critical"
    ELSE "ready"

\* the signal of a station: by swap status, critical from 60 portions on
station_signal(swap_status, prep_portions) ==
    IF prep_portions >= 60 THEN "critical"
    ELSE IF swap_status = "suggested" THEN "warning"
    ELSE "ready"

\* the row of one menu of today
station_row(menu, feedback_multiplier) ==
    [service_slot  |-> menu.service_slot,
     slot_label    |-> menu.slot_label,
     prep_portions |-> prep_portions_of(menu.predicted_covers, feedback_multiplier),
     signal        |-> station_signal(menu.swap_status,
                                      prep_portions_of(menu.predicted_covers,
                                                       feedback_multiplier)),
     swap_status   |-> menu.swap_status]

\* rows.sort(key = slot_label), stable; a label is its rank among the labels
RECURSIVE InsertByLabel(_, _)
InsertByLabel(rows, row) ==
    IF rows = <<>> THEN <<row>>
    ELSE IF rows[Len(rows)].slot_label <= row.slot_label THEN Append(rows, row)
    ELSE Append(InsertByLabel(SubSeq(rows, 1, Len(rows) - 1), row), rows[Len(rows)])

RECURSIVE SortByLabel(_, _)
SortByLabel(rows, n) ==
    IF n = 0 THEN <<>> ELSE InsertByLabel(SortByLabel(rows, n - 1), rows[n])

\* build_station_brief for the menus of today
build_station_brief(menus_today, feedback_multiplier) ==
    SortByLabel([i \in 1 .. Len(menus_today) |-> station_row(menus_today[i], feedback_multiplier)],
                Len(menus_today))

MaxCovers == 360
SwapStatuses == <<"monitor", "suggested", "approved", "ignored">>

\* the menus of today: the station under study and a second station
MenusToday(a) ==
    << [service_slot |-> PRIMARY_SERVICE_SLOT, slot_label |-> 1,
        predicted_covers |-> a.predicted_covers, swap_status |-> SwapStatuses[a.swap_status]],
       [service_slot |-> "weigh_green", slot_label |-> 2,
        predicted_covers |-> 35, swap_status |-> "monitor"] >>

brief_of(a) == build_station_brief(MenusToday(a), FDec(MultiplierChoices[a.multiplier], 1000))

InitBrief ==
    /\ SERVICE_DAYS = [k \in {DEFAULT_SITE_ID} |-> NewServiceDay(k)]
    /\ store = [k \in Sites |-> EmptyStore]
    /\ redis = "none"
    /\ DEMO_MODE = FALSE
    /\ weekend = FALSE
    /\ now = ClockStart
    /\ response = NoResponse
    /\ threads = << >>
    /\ args = [predicted_covers |-> 0, swap_status |-> 1, multiplier |-> 1]
    /\ result = brief_of(args)

MoreCovers ==
    /\ args.predicted_covers < MaxCovers
    /\ \E a \in {[args EXCEPT !.predicted_covers = @ + 1]} :
          args' = a /\ result' = brief_of(a)
    /\ UNCHANGED <<SERVICE_DAYS, store, redis, DEMO_MODE, weekend, now, response, threads>>

OtherSwapStatus ==
    /\ args.swap_status < Len(SwapStatuses)
    /\ \E a \in {[args EXCEPT !.swap_status = @ + 1]} :
          args' = a /\ result' = brief_of(a)
    /\ UNCHANGED <<SERVICE_DAYS, store, redis, DEMO_MODE, weekend, now, response, threads>>

OtherBriefMultiplier ==
    /\ args.multiplier < Len(MultiplierChoices)
    /\ \E a \in {[args EXCEPT !.multiplier = @ + 1]} :
          args' = a /\ result' = brief_of(a)
    /\ UNCHANGED <<SERVICE_DAYS, store, redis, DEMO_MODE, weekend, now, response, threads>>

NextBrief == MoreCovers \/ OtherSwapStatus \/ OtherBriefMultiplier

SpecBrief == InitBrief /\ [][NextBrief]_vars

\* int(covers * 0.18 * multiplier) for the multiplier of args
CoversShare(covers) == (covers * 18 * MultiplierChoices[args.multiplier]) \div 100000

\* the signal rule for a row
SignalRule(row) ==
    /\ row.prep_portions >= 60 => row.signal = "critical"
    /\ (row.prep_portions < 60 /\ row.swap_status = "suggested") => row.signal = "warning"
    /\ (row.prep_portions < 60 /\ row.swap_status \in {"approved", "ignored"})
          => row.signal = "ready"

\* the session is as the day began
SessionUntouched ==
    /\ SERVICE_DAYS[DEFAULT_SITE_ID].pan_fill_percent = Preset(DEFAULT_SITE_ID).pan_fill_percent
    /\ SERVICE_DAYS[DEFAULT_SITE_ID].diners_so_far = Preset(DEFAULT_SITE_ID).diners_so_far

\* C23 (as stated): the portions of a station are
\* min(max(int(predictedCovers * 0.18 * multiplier), 1), predictedCovers),
\* between 1 and max(predictedCovers, 1); the signal is critical from 60
\* portions on whatever the swap status, else warning for suggested and
\* ready for approved or ignored; the session's pan fill and diners-so-far
\* are not modified
C23_BriefAsStated ==
    /\ Len(result) = 2
    /\ result[1].prep_portions =
          IMin(IMax(CoversShare(args.predicted_covers), 1), args.predicted_covers)
    /\ result[1].prep_portions \in 1 .. IMax(args.predicted_covers, 1)
    /\ \A i \in 1 .. Len(result) : SignalRule(result[i])
    /\ SessionUntouched

\* C23 (amended): the portions of a station are computed for at least one
\* cover, min(max(int(c * 0.18 * multiplier), 1), c) with
\* c = max(predictedCovers, 1), hence between 1 and max(predictedCovers, 1);
\* the signal and the session are as stated
C23_BriefForAtLeastOneCover ==
    /\ Len(result) = 2
    /\ result[1].prep_portions =
          IMin(IMax(CoversShare(IMax(args.predicted_covers, 1)), 1),
               IMax(args.predicted_covers, 1))
    /\ result[1].prep_portions \in 1 .. IMax(args.predicted_covers, 1)
    /\ \A i \in 1 .. Len(result) : SignalRule(result[i])
    /\ SessionUntouched

\* a station with an approved swap is critical for its 60 portions or more
C23_ApprovedButCritical ==
    /\ result[1].swap_status = "approved"
    /\ result[1].prep_portions >= 60
    /\ result[1].signal = "critical"
    /\ result[2].signal = "ready"

\* ------------------------------------------------------------------------
\* The window of the structured feedback (specification SpecMult)
\* ------------------------------------------------------------------------
\* the entries stamped within the window that ends at utcnow
Recent(entries, utcnow) ==
    SelectSeq(entries, LAMBDA entry :
                 /\ entry.timestamp # NoTimestamp
                 /\ entry.timestamp >= utcnow - DETAILED_FEEDBACK_WINDOW_MINUTES)

\* C24: the multiplier is the one of the ratings and of the structured
\* entries stamped within the last 90 minutes (the lists here are shorter
\* than the 160 samples the scan takes): an older entry and an entry
\* without a readable timestamp contribute nothing
C24_OnlyRecentEntriesCount ==
    result = compute_feedback_demand_multiplier(args.scores, Recent(args.entries, now), now)

\* ------------------------------------------------------------------------
\* Two session keys
\* ------------------------------------------------------------------------
\* requests to the configured site and to a site id without a profile
InitSites ==
    /\ SERVICE_DAYS = << >>
    /\ store = [k \in Sites |-> EmptyStore]
    /\ redis = "none"
    /\ DEMO_MODE = FALSE
    /\ weekend = FALSE
    /\ now = ClockStart
    /\ response = NoResponse
    /\ threads = << >>
    /\ args = << >>
    /\ result = << >>

NextSites ==
    \/ \E site_id \in Sites : recomputeState(site_id)
    \/ \E site_id \in Sites, delta \in Deltas :
          /\ Session(site_id).diners_so_far + delta <= MaxDiners
          /\ incrementDiners(site_id, delta)
    \/ \E site_id \in Sites :
          /\ Len(Session(site_id).feedback_scores) < Len(Preset(site_id).feedback_scores) + 1
          /\ Len(Session(site_id).reaction_stream) < MaxReactions
          /\ submitQuickFeedback(site_id, 3)
    \/ \E site_id \in Sites :
          /\ site_id \in DOMAIN SERVICE_DAYS
          /\ SERVICE_DAYS[site_id].last_decision # <<>>
          /\ markDecisionDone(site_id, identity_of(SERVICE_DAYS[site_id].last_decision[1]))
    \/ \E site_id \in Sites :
          /\ site_id \in DOMAIN SERVICE_DAYS
          /\ SERVICE_DAYS[site_id].last_decision # <<>>
          /\ markDecisionSkipped(site_id, identity_of(SERVICE_DAYS[site_id].last_decision[1]))
    \/ \E site_id \in Sites : resetSession(site_id)

SpecSites == InitSites /\ [][NextSites]_vars

\* C25: a request addressed to one site leaves the session of every other
\* site as it was (or absent, if it was); the first request to a site
\* creates its session, and every later request finds that session: only a
\* reset removes it and only incrementDiners changes its diners-so-far
C25_SessionsIsolated ==
    [][\A a \in Sites :
          (response'.op # "none" /\ response'.site_id = a) =>
              /\ \A b \in Sites \ {a} :
                    /\ b \in DOMAIN SERVICE_DAYS' <=> b \in DOMAIN SERVICE_DAYS
                    /\ b \in DOMAIN SERVICE_DAYS => SERVICE_DAYS'[b] = SERVICE_DAYS[b]
                    /\ store'[b] = store[b]
              /\ a \in DOMAIN SERVICE_DAYS' <=> response'.op # "resetSession"
              /\ (/\ a \in DOMAIN SERVICE_DAYS
                  /\ response'.op \notin {"resetSession", "incrementDiners"})
                    => SERVICE_DAYS'[a].diners_so_far = SERVICE_DAYS[a].diners_so_far]_vars

\* both sites have a session that has moved from its preset, and the site
\* without a profile has just been served
C25_BothSitesActive ==
    /\ DOMAIN SERVICE_DAYS = Sites
    /\ response.op = "markDecisionDone"
    /\ response.status = 200
    /\ response.site_id # DEFAULT_SITE_ID
    /\ \A site_id \in Sites :
          /\ SERVICE_DAYS[site_id].diners_so_far # Preset(site_id).diners_so_far
          /\ SERVICE_DAYS[site_id].last_decision # <<>>
    /\ SERVICE_DAYS[DEFAULT_SITE_ID].pan_fill_percent # Preset(DEFAULT_SITE_ID).pan_fill_percent

\* ------------------------------------------------------------------------
\* Ratings accepted during an outage of the EventStore
\* ------------------------------------------------------------------------
\* a site without preset ratings: every rating of its history was submitted
OutageSite == "campus_west"
OutageRatings == {1, 3}

InitOutage ==
    /\ SERVICE_DAYS = << >>
    /\ store = [k \in Sites |-> EmptyStore]
    /\ redis = "up"
    /\ DEMO_MODE = FALSE
    /\ weekend = FALSE
    /\ now = ClockStart
    /\ response = NoResponse
    /\ threads = << >>
    /\ args = << >>
    /\ result = << >>

NextOutage ==
    \/ recomputeState(OutageSite)
    \/ \E rating \in OutageRatings :
          /\ RoomFor(OutageSite, "scores", MaxStored)
          /\ RoomFor(OutageSite, "reactions", MaxStored)
          /\ submitQuickFeedback(OutageSite, rating)
    \/ resetSession(OutageSite)
    \/ RedisFlip

SpecOutage == InitOutage /\ [][NextOutage]_vars

\* how often a rating occurs in a history
Occurrences(history, rating) == Cardinality({i \in DOMAIN history : history[i] = rating})

\* C26: a rating that submitQuickFeedback has accepted stays in the rating
\* history that later recomputations use, until 100 newer ratings evict it
\* or the session is reset, whatever the EventStore did with it: a
\* recomputeState keeps every rating of the history it finds (the histories
\* here are far below the cap)
C26_AcceptedRatingsKept ==
    [][(response'.op = "recomputeState" /\ response'.site_id = OutageSite) =>
          \A rating \in OutageRatings :
             Occurrences(SERVICE_DAYS'[OutageSite].feedback_scores, rating)
                >= Occurrences(Session(OutageSite).feedback_scores, rating)]_vars

\* ------------------------------------------------------------------------
\* Identities of replaced cards
\* ------------------------------------------------------------------------
\* the payload carries the three identity fields
FullIdentity(payload) ==
    /\ payload.decision_wave_index # <<>>
    /\ payload.decision_timestamp # <<>>
    /\ payload.service_slot # <<>>

\* C27: a markDecisionDone or markDecisionSkipped request that carries the
\* full identity of a card whose timestamp is not the active card's is
\* answered StaleDecision (409) and changes nothing, also when its wave
\* index and service slot are the active card's
C27_ReplacedCardIsStale ==
    [][\A site_id \in ReqSites :
          (/\ response'.op \in {"markDecisionDone", "markDecisionSkipped"}
           /\ response'.site_id = site_id
           /\ FullIdentity(response'.payload)
           /\ site_id \in DOMAIN SERVICE_DAYS
           /\ SERVICE_DAYS[site_id].last_decision # <<>>
           /\ response'.payload.decision_timestamp[1]
                 # SERVICE_DAYS[site_id].last_decision[1].timestamp)
             => /\ response'.status = 409
                /\ SERVICE_DAYS' = SERVICE_DAYS
                /\ store' = store]_vars

\* the card of an earlier snapshot, of the same wave and slot as the card
\* that replaced it, has been refused
C27_EarlierSnapshotRefused ==
    /\ response.op = "markDecisionDone"
    /\ response.status = 409
    /\ FullIdentity(response.payload)
    /\ now = ClockStart + TickMinutes
    /\ SERVICE_DAYS[response.site_id].last_decision # <<>>
    /\ LET card == SERVICE_DAYS[response.site_id].last_decision[1]
       IN  /\ card.timestamp = now
           /\ response.payload.decision_timestamp[1] = ClockStart
           /\ response.payload.decision_wave_index[1] = card.wave_index
           /\ response.payload.service_slot[1] = card.service_slot
           /\ card.status = "pending"

\* ------------------------------------------------------------------------
\* Repeated done requests
\* ------------------------------------------------------------------------
\* C28: a markDecisionDone request that directly follows an accepted one
\* with the same matching identity is accepted as well, whatever the card's
\* status, and credits the pan again with the card's suggested grams, up to
\* the cap of 100 %
C28_DoneCreditsAgain ==
    [][\A site_id \in ReqSites :
          (/\ response.op = "markDecisionDone"
           /\ response.status = 200
           /\ response.site_id = site_id
           /\ response'.op = "markDecisionDone"
           /\ response'.site_id = site_id
           /\ response'.payload = response.payload
           /\ IdentityEquals(SERVICE_DAYS[site_id], response.payload))
             => LET before == SERVICE_DAYS[site_id]
                    after  == SERVICE_DAYS'[site_id]
                    site   == get_site_config(site_id)
                IN  /\ before.last_decision[1].status = "done"
                    /\ response'.status = 200
                    /\ after.last_decision[1].status = "done"
                    /\ after.pan_fill_percent =
                          adjust_pan_after_refill(before.pan_fill_percent,
                                                  before.last_decision[1].suggested_grams,
                                                  site.portion_grams, site.pan_capacity_portions)
                    /\ after.pan_fill_percent >= before.pan_fill_percent
                    /\ after.pan_fill_percent <= 100]_vars

\* the pan of a done card stands above what one refill from the level the
\* card recorded gives: the card has been credited more than once
C28_CreditedTwice ==
    /\ response.op = "markDecisionDone"
    /\ response.status = 200
    /\ SERVICE_DAYS[response.site_id].last_decision # <<>>
    /\ LET service_day == SERVICE_DAYS[response.site_id]
           card        == service_day.last_decision[1]
           site        == get_site_config(response.site_id)
       IN  /\ card.status = "done"
           /\ IdentityEquals(service_day, response.payload)
           /\ service_day.pan_fill_percent >
                 adjust_pan_after_refill(card.pan_fill_percent, card.suggested_grams,
                                         site.portion_grams, site.pan_capacity_portions)
           /\ adjust_pan_after_refill(card.pan_fill_percent, card.suggested_grams,
                                      site.portion_grams, site.pan_capacity_portions)
                 > card.pan_fill_percent

\* ------------------------------------------------------------------------
\* Partial identities
\* ------------------------------------------------------------------------
\* an identity field as a client can send it: absent, the card's value or
\* another value
FieldChoices(value, other) == {<<>>, <<value>>, <<other>>}

\* every payload over the three identity fields
PartialPayloads(card) ==
    [decision_wave_index : FieldChoices(card.wave_index, (card.wave_index + 1) % Len(EXPECTED_WAVES)),
     decision_timestamp  : FieldChoices(card.timestamp, card.timestamp - TickMinutes),
     service_slot        : FieldChoices(card.service_slot, "weigh_green")]

\* the payloads for the active card of the site, or for a card that was never issued
PayloadChoices(site_id) ==
    IF site_id \in DOMAIN SERVICE_DAYS /\ SERVICE_DAYS[site_id].last_decision # <<>>
    THEN PartialPayloads(SERVICE_DAYS[site_id].last_decision[1])
    ELSE PartialPayloads([wave_index |-> 0, timestamp |-> now,
                          service_slot |-> PRIMARY_SERVICE_SLOT])

InitPayloads ==
    /\ SERVICE_DAYS = << >>
    /\ store = [k \in Sites |-> EmptyStore]
    /\ redis = "none"
    /\ DEMO_MODE = FALSE
    /\ weekend = FALSE
    /\ now = ClockStart
    /\ response = NoResponse
    /\ threads = << >>
    /\ args = << >>
    /\ result = << >>

NextPayloads ==
    \/ \E site_id \in ReqSites : recomputeState(site_id)
    \/ \E site_id \in ReqSites : \E payload \in PayloadChoices(site_id) : markDecisionDone(site_id, payload)
    \/ \E site_id \in ReqSites : \E payload \in PayloadChoices(site_id) : markDecisionSkipped(site_id, payload)
    \/ \E site_id \in ReqSites : resetSession(site_id)

SpecPayloads == InitPayloads /\ [][NextPayloads]_vars

\* a field that the payload supplies is not the card's
SuppliedFieldDiffers(card, payload) ==
    \/ payload.decision_wave_index # <<>> /\ payload.decision_wave_index[1] # card.wave_index
    \/ payload.decision_timestamp # <<>> /\ payload.decision_timestamp[1] # card.timestamp
    \/ payload.service_slot # <<>> /\ payload.service_slot[1] # card.service_slot

\* C29: a markDecisionDone or markDecisionSkipped request is answered
\* StaleDecision (409), and changes nothing, exactly when no card is active
\* or a field that its payload supplies differs from the active card's; an
\* empty payload and absent fields count as matching, and the request is
\* then applied to the active card
C29_OnlySuppliedFieldsCompared ==
    [][\A site_id \in ReqSites :
          (/\ response'.op \in {"markDecisionDone", "markDecisionSkipped"}
           /\ response'.site_id = site_id)
             => LET before == Session(site_id)
                    after  == SERVICE_DAYS'[site_id]
                IN  IF \/ before.last_decision = <<>>
                       \/ SuppliedFieldDiffers(before.last_decision[1], response'.payload)
                    THEN /\ response'.status = 409
                         /\ after = before
                    ELSE /\ response'.status = 200
                         /\ after.last_decision[1].status =
                               (IF response'.op = "markDecisionDone" THEN "done" ELSE "skipped")]_vars

\* a request without any identity field has been applied to the active card
C29_EmptyPayloadApplied ==
    /\ response.op = "markDecisionSkipped"
    /\ response.status = 200
    /\ response.payload = EmptyPayload
    /\ SERVICE_DAYS[response.site_id].last_decision # <<>>
    /\ SERVICE_DAYS[response.site_id].last_decision[1].status = "skipped"

\* ------------------------------------------------------------------------
\* Resolved waves
\* ------------------------------------------------------------------------
Resolved(card) == card.status \in {"done", "skipped"}

\* C30: while a session lives, the wave index of its active card never
\* falls, and once the active card of a wave is done or skipped the next
\* active card of that wave is done or skipped as well, whatever request
\* comes between; a skip of a done card leaves the pan where the done put it
C30_ResolvedWaveStaysResolved ==
    [][\A site_id \in DOMAIN SERVICE_DAYS \cap DOMAIN SERVICE_DAYS' :
          LET before == SERVICE_DAYS[site_id]
              after  == SERVICE_DAYS'[site_id]
          IN  (before.last_decision # <<>> /\ response'.op # "resetSession") =>
                 /\ after.last_decision # <<>>
                 /\ after.last_decision[1].wave_index >= before.last_decision[1].wave_index
                 /\ (/\ Resolved(before.last_decision[1])
                     /\ after.last_decision[1].wave_index = before.last_decision[1].wave_index)
                       => Resolved(after.last_decision[1])
                 /\ (/\ response'.op = "markDecisionSkipped"
                     /\ before.last_decision[1].status = "done")
                       => after.pan_fill_percent = before.pan_fill_percent]_vars

\* a card that was done and credited is now skipped, was recomputed for the
\* same wave, and the pan has kept the credit
C30_SkippedAfterDoneRecomputed ==
    /\ response.op = "recomputeState"
    /\ response.state.last_decision.status = "skipped"
    /\ SERVICE_DAYS[response.site_id].last_decision[1].status = "skipped"
    /\ SERVICE_DAYS[response.site_id].pan_fill_percent
          > Preset(response.site_id).pan_fill_percent
    /\ ~DEMO_MODE

====
